---- MODULE Spec2Model ----
(***************************************************************************)
(* Self-healing selector resolution: the selector knowledge base           *)
(* (selector_kb.py), the resilient finder (resilient_finder.py) and the    *)
(* Ollama repair stage (ollama_ai_repair.py), as a state machine.          *)
(***************************************************************************)
EXTENDS Integers, Sequences, FiniteSets, TLC

(***************************************************************************)
(* Bounds of the model.                                                    *)
(***************************************************************************)
\* datetime.now() is a counter; no call reads a time later than MaxClock
MaxClock == 5
\* the store API is driven with positions and indices up to MaxPos
MaxPos == 2
\* no run holds more than MaxEvents events that widen the state: a change of
\* the site, a failing write of the file, a strategy added to the store
MaxEvents == 1
\* the ticks of the clock left to a run of scrape_quotes when it starts
RequestClock == 20

(***************************************************************************)
(* Strings (Python str operations used by the source).                     *)
(***************************************************************************)
\* Python: sub in s
Contains(s, sub) ==
    \E i \in 1..(Len(s) - Len(sub) + 1) : SubSeq(s, i, i + Len(sub) - 1) = sub

UpperChars == <<"A", "B", "C", "D", "E", "F", "G", "H", "I", "J", "K", "L", "M",
                "N", "O", "P", "Q", "R", "S", "T", "U", "V", "W", "X", "Y", "Z">>

LowerChars == <<"a", "b", "c", "d", "e", "f", "g", "h", "i", "j", "k", "l", "m",
                "n", "o", "p", "q", "r", "s", "t", "u", "v", "w", "x", "y", "z">>

LowerChar(c) ==
    IF \E k \in 1..26 : UpperChars[k] = c
    THEN LowerChars[CHOOSE k \in 1..26 : UpperChars[k] = c]
    ELSE c

RECURSIVE LowerFrom(_, _)
LowerFrom(s, i) ==
    IF i > Len(s) THEN "" ELSE LowerChar(SubSeq(s, i, i)) \o LowerFrom(s, i + 1)

\* Python: s.lower()
Lower(s) == LowerFrom(s, 1)

RECURSIVE RemoveFrom(_, _, _)
RemoveFrom(s, c, i) ==
    IF i > Len(s) THEN ""
    ELSE (IF SubSeq(s, i, i) = c THEN "" ELSE SubSeq(s, i, i)) \o RemoveFrom(s, c, i + 1)

\* Python: s.replace(c, '') for a one-character c
RemoveChar(s, c) == RemoveFrom(s, c, 1)

\* the position of the first c at or after i, or 0
RECURSIVE IndexFrom(_, _, _)
IndexFrom(s, c, i) ==
    IF i > Len(s) THEN 0
    ELSE IF SubSeq(s, i, i) = c THEN i
    ELSE IndexFrom(s, c, i + 1)

\* Python: re.findall(attr + '="([^"]*)"', s): the captured values of the
\* non-overlapping matches, left to right
RECURSIVE FindAttrFrom(_, _, _)
FindAttrFrom(s, attr, i) ==
    LET pre == attr \o "=\""
        n   == Len(pre)
    IN  IF i + n - 1 > Len(s) THEN <<>>
        ELSE IF SubSeq(s, i, i + n - 1) = pre
             THEN LET j == IndexFrom(s, "\"", i + n)
                  IN  IF j = 0 THEN FindAttrFrom(s, attr, i + 1)
                      ELSE <<SubSeq(s, i + n, j - 1)>> \o FindAttrFrom(s, attr, j + 1)
             ELSE FindAttrFrom(s, attr, i + 1)

FindAttr(s, attr) == FindAttrFrom(s, attr, 1)

(***************************************************************************)
(* Strategies: dicts {"strategy": kind, "params": {...}}.                  *)
(***************************************************************************)
Label(t) == [strategy |-> "label", params |-> [text |-> t]]

Placeholder(t) == [strategy |-> "placeholder", params |-> [text |-> t]]

Css(sel) == [strategy |-> "css", params |-> [selector |-> sel]]

\* the seeded role strategies carry a name and no role
RoleName(n) == [strategy |-> "role", params |-> [name |-> n]]

\* the (strategy, params) part of a record, without its bookkeeping keys
StrategyOf(r) == [strategy |-> r.strategy, params |-> r.params]

StrategiesOf(list) == [k \in 1..Len(list) |-> StrategyOf(list[k])]

(***************************************************************************)
(* The seeded default knowledge base.                                      *)
(***************************************************************************)
DefaultProviders ==
    [penske |->
      [pickup_input |-> <<
          Label("Pick-up Location"),
          Placeholder("Pick-up"),
          Css("input[placeholder*='pickup' i]"),
          Css("input[placeholder*='Pick-up' i]"),
          Css("input[name*='pickup' i]"),
          Css("input[id*='pickup' i]"),
          Css("input[placeholder*='location' i]:first-of-type"),
          Css("input[type='text']:first-of-type"),
          Css("[data-test=pickup] input") >>,
       dropoff_input |-> <<
          Label("Drop-off Location"),
          Placeholder("Drop-off"),
          Css("input[placeholder*='dropoff' i]"),
          Css("input[placeholder*='Drop-off' i]"),
          Css("input[name*='dropoff' i]"),
          Css("input[id*='dropoff' i]"),
          Css("input[placeholder*='location' i]:nth-of-type(2)"),
          Css("input[type='text']:nth-of-type(2)"),
          Css("[data-test=dropoff] input") >>,
       pickup_date |-> <<
          Label("Pick-up Date"),
          Css("input[type='date']"),
          Css("[data-test=pickup-date] input"),
          Css("input[placeholder*='date']") >>,
       dropoff_date |-> <<
          Label("Drop-off Date"),
          Css("input[type='date']"),
          Css("[data-test=dropoff-date] input"),
          Css("input[placeholder*='date']") >>,
       submit_button |-> <<
          RoleName("Get Rates"),
          RoleName("Search"),
          RoleName("Find"),
          Css("button[type='submit']"),
          Css("[data-test=submit]") >>,
       result_cards |-> <<
          Css("[data-test=rate-card]"),
          Css(".rate-card"),
          Css("article"),
          Css(".quote-card"),
          Css("[class*='rate']") >>,
       price_element |-> <<
          Css(".price"),
          Css(".total"),
          Css("[data-test=total-price]"),
          Css("[class*='price']"),
          Css("[class*='total']") >>,
       truck_title |-> <<
          Css("h3"),
          Css("h2"),
          Css("[data-test=truck-title]"),
          Css("[class*='title']") >>,
       miles_element |-> <<
          Css(".miles"),
          Css("[data-test=included-miles]"),
          Css("[class*='mile']") >>
      ]]

DefaultKb(t) == [version |-> "1.0", last_updated |-> t, providers |-> DefaultProviders]

\* self.kb.get("providers", {})
ProvidersOf(k) == IF "providers" \in DOMAIN k THEN k.providers ELSE [p \in {} |-> p]

(***************************************************************************)
(* The durable document: absent, unparseable, or a JSON text.  A JSON text *)
(* is held as the value json.dump writes: an object is the set of its      *)
(* members <<name, value>>, an array is a sequence, strings and numbers    *)
(* are themselves.                                                         *)
(***************************************************************************)
\* the names of the members of an object, and the value of the member name
Names(ms) == {m[1] : m \in ms}

Member(ms, name) == (CHOOSE m \in ms : m[1] = name)[2]

\* json.dump / json.load of the params of a strategy
DumpParams(ps) == {<<name, ps[name]>> : name \in DOMAIN ps}

LoadParams(ms) == [name \in Names(ms) |-> Member(ms, name)]

\* json.dump of a strategy record
DumpRecord(r) ==
    {<<name, IF name = "params" THEN DumpParams(r[name]) ELSE r[name]>> : name \in DOMAIN r}

\* json.load that keeps only the strategy and its parameters of a record
LoadRecord_Bare(ms) ==
    [name \in Names(ms) \cap {"strategy", "params"} |->
        IF name = "params" THEN LoadParams(Member(ms, name)) ELSE Member(ms, name)]

\* json.load of a strategy record
LoadRecord(ms) ==
    [name \in Names(ms) |->
        IF name = "params" THEN LoadParams(Member(ms, name)) ELSE Member(ms, name)]

\* json.dump / json.load of the list of a field
DumpList(list) == [i \in 1..Len(list) |-> DumpRecord(list[i])]

LoadList(arr) == [i \in 1..Len(arr) |-> LoadRecord(arr[i])]

\* json.dump / json.load of the fields of a provider
DumpFields(F) == {<<name, DumpList(F[name])>> : name \in DOMAIN F}

LoadFields(ms) == [name \in Names(ms) |-> LoadList(Member(ms, name))]

\* json.dump / json.load of the providers
DumpProviders(P) == {<<name, DumpFields(P[name])>> : name \in DOMAIN P}

LoadProviders(ms) == [name \in Names(ms) |-> LoadFields(Member(ms, name))]

\* json.dump(self.kb, f, indent=2)
JsonDump(k) ==
    {<<name, IF name = "providers" THEN DumpProviders(k[name]) ELSE k[name]>> :
        name \in DOMAIN k}

\* json.load(f)
JsonLoad(ms) ==
    [name \in Names(ms) |->
        IF name = "providers" THEN LoadProviders(Member(ms, name)) ELSE Member(ms, name)]

NoDoc == {}

DiskAbsent == [kind |-> "absent", doc |-> NoDoc]

DiskGarbage == [kind |-> "garbage", doc |-> NoDoc]

DiskDoc(d) == [kind |-> "doc", doc |-> JsonDump(d)]

\* _load_kb: the parsed document, or the default when the file is absent or
\* json.load raises
LoadKb(d, t) == IF d.kind = "doc" THEN JsonLoad(d.doc) ELSE DefaultKb(t)

\* what open(..., 'w') + json.dump leave on disk: the whole in-memory
\* document; the old file when open fails; a truncated file when the write
\* fails after open
WriteOutcomes == {"ok", "open_fails", "dump_fails"}

\* a write that replaces the providers of the document on disk and leaves the
\* rest of the file as it was
DiskAfterWrite_Patching(d, m, w) ==
    CASE w = "ok" ->
            IF d.kind = "doc" /\ "providers" \in DOMAIN JsonLoad(d.doc)
            THEN DiskDoc([JsonLoad(d.doc) EXCEPT !.providers = ProvidersOf(m)])
            ELSE DiskDoc(m)
      [] w = "open_fails" -> d
      [] w = "dump_fails" -> DiskGarbage

\* a write that keeps the entries of the file which the memory does not hold
DiskAfterWrite_Merging(d, m, w) ==
    CASE w = "ok" ->
            IF d.kind = "doc"
            THEN LET old == ProvidersOf(JsonLoad(d.doc))
                     new == ProvidersOf(m)
                 IN  DiskDoc([key \in DOMAIN m \cup {"providers"} |->
                        IF key = "providers"
                        THEN [q \in DOMAIN old \cup DOMAIN new |->
                                IF q \in DOMAIN new THEN new[q] ELSE old[q]]
                        ELSE m[key]])
            ELSE DiskDoc(m)
      [] w = "open_fails" -> d
      [] w = "dump_fails" -> DiskGarbage

DiskAfterWrite(d, m, w) ==
    CASE w = "ok" -> DiskDoc(m)
      [] w = "open_fails" -> d
      [] w = "dump_fails" -> DiskGarbage

(***************************************************************************)
(* SelectorKB: the in-memory operations.                                   *)
(***************************************************************************)
HasEntry(k, p, f) == p \in DOMAIN ProvidersOf(k) /\ f \in DOMAIN ProvidersOf(k)[p]

\* get_strategies falling back to the seeded pickup strategies for a key the
\* KB does not hold
GetStrategies_Seeded(k, p, f) ==
    IF HasEntry(k, p, f) THEN ProvidersOf(k)[p][f] ELSE DefaultProviders.penske.pickup_input

\* get_strategies: the entry's list, or an empty list for an unknown key
GetStrategies(k, p, f) == IF HasEntry(k, p, f) THEN ProvidersOf(k)[p][f] ELSE <<>>

\* list.insert that overwrites the record at the position
PyInsert_Replacing(list, pos, x) ==
    LET n == Len(list)
        q == IF pos < 0 THEN (IF n + pos < 0 THEN 0 ELSE n + pos)
             ELSE IF pos > n THEN n ELSE pos
    IN  SubSeq(list, 1, q) \o <<x>> \o SubSeq(list, q + 2, n)

\* Python: list.insert(pos, x)
PyInsert(list, pos, x) ==
    LET n == Len(list)
        q == IF pos < 0 THEN (IF n + pos < 0 THEN 0 ELSE n + pos)
             ELSE IF pos > n THEN n ELSE pos
    IN  SubSeq(list, 1, q) \o <<x>> \o SubSeq(list, q + 1, n)

\* the KB with the list of (p, f) set, the provider and field created if missing
WithList(k, p, f, list) ==
    LET P  == ProvidersOf(k)
        Fp == IF p \in DOMAIN P THEN P[p] ELSE [g \in {} |-> <<>>]
        Pn == [q \in DOMAIN P \cup {p} |->
                IF q = p
                THEN [g \in DOMAIN Fp \cup {f} |-> IF g = f THEN list ELSE Fp[g]]
                ELSE P[q]]
    IN  IF "providers" \in DOMAIN k
        THEN [k EXCEPT !.providers = Pn]
        ELSE [key \in DOMAIN k \cup {"providers"} |->
                IF key = "providers" THEN Pn ELSE k[key]]

\* add_strategy that leaves out a strategy the entry already holds
AddStrategyMem_Dedup(k, p, f, s, pos) ==
    IF \E j \in 1..Len(GetStrategies(k, p, f)) : GetStrategies(k, p, f)[j] = s
    THEN WithList(k, p, f, GetStrategies(k, p, f))
    ELSE WithList(k, p, f, PyInsert(GetStrategies(k, p, f), pos, s))

\* add_strategy, before save_kb
AddStrategyMem(k, p, f, s, pos) ==
    WithList(k, p, f, PyInsert(GetStrategies(k, p, f), pos, s))

InRange(k, p, f, i) == 0 <= i /\ i < Len(GetStrategies(k, p, f))

\* promote_strategy that moves a record to the front without its counters
PromoteMem_Fresh(k, p, f, i) ==
    LET list == GetStrategies(k, p, f)
        rest == SubSeq(list, 1, i) \o SubSeq(list, i + 2, Len(list))
    IN  WithList(k, p, f, <<StrategyOf(list[i + 1])>> \o rest)

\* promote_strategy that exchanges the record with the first one
PromoteMem_Swap(k, p, f, i) ==
    LET list == GetStrategies(k, p, f)
    IN  WithList(k, p, f, [list EXCEPT ![1] = list[i + 1], ![i + 1] = list[1]])

\* promote_strategy, before save_kb: pop(i) then insert(0, .)
PromoteMem(k, p, f, i) ==
    LET list == GetStrategies(k, p, f)
        rest == SubSeq(list, 1, i) \o SubSeq(list, i + 2, Len(list))
    IN  WithList(k, p, f, <<list[i + 1]>> \o rest)

\* the success_count of a record; a record without the key counts 0
SuccessCount(r) == IF "success_count" \in DOMAIN r THEN r.success_count ELSE 0

\* record_success that sets the count instead of adding to it
Bump_Reset(r, t) ==
    [key \in DOMAIN r \cup {"success_count", "last_success"} |->
        IF key = "success_count" THEN 1
        ELSE IF key = "last_success" THEN t
        ELSE r[key]]

\* record_success on one record at time t
Bump(r, t) ==
    [key \in DOMAIN r \cup {"success_count", "last_success"} |->
        IF key = "success_count" THEN SuccessCount(r) + 1
        ELSE IF key = "last_success" THEN t
        ELSE r[key]]

\* record_success that also moves the record to the front
RecordSuccessMem_Promoting(k, p, f, i, t) ==
    LET list == GetStrategies(k, p, f)
        rest == SubSeq(list, 1, i) \o SubSeq(list, i + 2, Len(list))
    IN  WithList(k, p, f, <<Bump(list[i + 1], t)>> \o rest)

\* record_success, before save_kb
RecordSuccessMem(k, p, f, i, t) ==
    LET list == GetStrategies(k, p, f)
    IN  WithList(k, p, f, [list EXCEPT ![i + 1] = Bump(list[i + 1], t)])

\* save_kb stamps last_updated before it opens the file
Stamp(k, t) ==
    IF "last_updated" \in DOMAIN k
    THEN [k EXCEPT !.last_updated = t]
    ELSE [key \in DOMAIN k \cup {"last_updated"} |->
            IF key = "last_updated" THEN t ELSE k[key]]

(***************************************************************************)
(* ResilientFinder: realizing and validating one strategy.                 *)
(***************************************************************************)
\* the parameters _apply_strategy reads for each supported kind
RequiredParams(kind) ==
    CASE kind \in {"label", "placeholder", "text"} -> {"text"}
      [] kind = "role" -> {"role", "name"}
      [] kind = "css" -> {"selector"}
      [] kind = "xpath" -> {"xpath"}
      [] kind = "testid" -> {"testid"}
      [] OTHER -> {}

SupportedKinds == {"label", "placeholder", "role", "css", "xpath", "testid", "text"}

\* an _apply_strategy that builds a locator for every supported kind, reading
\* its parameters with a default
ApplyStrategy_Lenient(s) ==
    IF ~({"strategy", "params"} \subseteq DOMAIN s) THEN "error"
    ELSE IF s.strategy \notin SupportedKinds THEN "none"
    ELSE "locator"

\* _apply_strategy: "locator" when a locator is built, "none" when the kind is
\* unsupported (returns None), "error" when a key is missing (KeyError)
ApplyStrategy(s) ==
    IF ~({"strategy", "params"} \subseteq DOMAIN s) THEN "error"
    ELSE IF s.strategy \notin SupportedKinds THEN "none"
    ELSE IF RequiredParams(s.strategy) \subseteq DOMAIN s.params THEN "locator"
    ELSE "error"

\* locator.first.wait_for(timeout): "ok" when an element is there, "timeout"
\* (PWTimeout) when none appears, "fatal" (another playwright error) when the
\* page or its context is gone
WaitFor(pg, s) ==
    IF ~pg.alive THEN "fatal"
    ELSE IF StrategyOf(s) \in pg.present THEN "ok"
    ELSE "timeout"

(***************************************************************************)
(* Stage A: ResilientFinder._ai_propose_strategy.                          *)
(***************************************************************************)
PickupProposals ==
    << Css("input[placeholder*='pickup']"),
       Css("input[placeholder*='Pick-up']"),
       Css("input[name*='pickup']"),
       Css("input[id*='pickup']") >>

DropoffProposals ==
    << Css("input[placeholder*='dropoff']"),
       Css("input[placeholder*='Drop-off']"),
       Css("input[name*='dropoff']"),
       Css("input[id*='dropoff']") >>

DateProposals ==
    << Css("input[type='date']"),
       Css("input[placeholder*='date']"),
       Css("input[name*='date']") >>

ButtonProposals ==
    << Css("button[type='submit']"),
       Css("button:has-text('Get')"),
       Css("button:has-text('Search')"),
       Css("button:has-text('Find')") >>

InputProposals(field) ==
    LET f == Lower(field)
    IN  IF Contains(f, "pickup") \/ Contains(f, "pick-up") THEN PickupProposals
        ELSE IF Contains(f, "dropoff") \/ Contains(f, "drop-off") THEN DropoffProposals
        ELSE IF Contains(f, "date") THEN DateProposals
        ELSE <<>>

\* any(keyword in value.lower() for keyword in keywords)
AnyKeyword(value, keywords) == \E kw \in keywords : Contains(Lower(value), kw)

FieldKeyword(field) == RemoveChar(Lower(field), "_")

TestIdProposals(field, dom) ==
    LET hit(v) == AnyKeyword(v, {FieldKeyword(field), "input", "button", "card"})
        found  == SelectSeq(FindAttr(dom, "data-test"), hit)
    IN  [k \in 1..Len(found) |-> Css("[data-test='" \o found[k] \o "']")]

AriaProposals(field, dom) ==
    LET hit(v) == AnyKeyword(v, {FieldKeyword(field), "pickup", "dropoff", "date"})
        found  == SelectSeq(FindAttr(dom, "aria-label"), hit)
    IN  [k \in 1..Len(found) |-> Css("[aria-label='" \o found[k] \o "']")]

\* the proposals list, in discovery order
Proposals(field, dom) ==
    (IF Contains(Lower(dom), "input") THEN InputProposals(field) ELSE <<>>)
    \o (IF Contains(Lower(dom), "button") THEN ButtonProposals ELSE <<>>)
    \o TestIdProposals(field, dom)
    \o AriaProposals(field, dom)

\* a Stage A that hands out its last candidate
AiProposeStrategy_Last(field, dom, failed) ==
    LET ps == Proposals(field, dom)
    IN  IF ps = <<>> THEN <<>> ELSE <<ps[Len(ps)]>>

\* _ai_propose_strategy: proposals[0] if proposals else None, as a list of
\* at most one strategy
AiProposeStrategy(field, dom, failed) ==
    LET ps == Proposals(field, dom)
    IN  IF ps = <<>> THEN <<>> ELSE <<ps[1]>>

(***************************************************************************)
(* Stage B: OllamaAIRepair.                                                *)
(***************************************************************************)
\* the configured model name
ModelName == "gpt-oss"

\* dom_snippet[:1000] and failed_strategies[:2] go into the prompt
PromptDomChars == 1000

PromptFailed == 2

Prefix(seq, n) == SubSeq(seq, 1, IF Len(seq) < n THEN Len(seq) ELSE n)

\* the answers of GET /api/tags: the call raises (unreachable, timeout), or
\* answers a status with a body that is the JSON list of model names or that
\* response.json() cannot read
ProbeAnswers ==
    { [exc |-> TRUE,  status |-> 0,   body |-> "json",      models |-> <<>>],
      [exc |-> FALSE, status |-> 500, body |-> "json",      models |-> <<"gpt-oss:20b">>],
      [exc |-> FALSE, status |-> 200, body |-> "malformed", models |-> <<>>],
      [exc |-> FALSE, status |-> 200, body |-> "json",      models |-> <<"llama3:8b">>],
      [exc |-> FALSE, status |-> 200, body |-> "json",
       models |-> <<"llama3:8b", "gpt-oss:20b">>] }

\* what is wrong with an answer of the service, if anything
Fault(a) ==
    IF a.exc THEN "unreachable"
    ELSE IF a.status # 200 THEN "status"
    ELSE IF a.body = "malformed" THEN "body"
    ELSE "none"

\* a probe that asks for a listed model of exactly the configured name
CheckOllamaAvailable_Exact(a) ==
    IF a.exc THEN FALSE
    ELSE IF a.status = 200
         THEN IF a.body = "malformed" THEN FALSE
              ELSE \E k \in 1..Len(a.models) : a.models[k] = ModelName
         ELSE FALSE

\* check_ollama_available: every exception ends as False
CheckOllamaAvailable(a) ==
    IF a.exc THEN FALSE
    ELSE IF a.status = 200
         THEN IF a.body = "malformed" THEN FALSE
              ELSE \E k \in 1..Len(a.models) : Contains(a.models[k], ModelName)
         ELSE FALSE

IsSpace(c) == c \in {" ", "\n", "\t", "\r"}

RECURSIVE SkipSpace(_, _)
\* the first position at or after i that holds no whitespace (Len(s) + 1 at the end)
SkipSpace(s, i) ==
    IF i > Len(s) THEN i
    ELSE IF IsSpace(SubSeq(s, i, i)) THEN SkipSpace(s, i + 1)
    ELSE i

RECURSIVE SkipSpaceBack(_, _)
SkipSpaceBack(s, i) ==
    IF i < 1 THEN i
    ELSE IF IsSpace(SubSeq(s, i, i)) THEN SkipSpaceBack(s, i - 1)
    ELSE i

\* Python: s.strip()
Strip(s) == SubSeq(s, SkipSpace(s, 1), SkipSpaceBack(s, Len(s)))

\* the position of the first brace, opening or closing, at or after i, or 0
RECURSIVE NextBrace(_, _)
NextBrace(s, i) ==
    IF i > Len(s) THEN 0
    ELSE IF SubSeq(s, i, i) \in {"{", "}"} THEN i
    ELSE NextBrace(s, i + 1)

\* re.findall(r'\{[^{}]*"strategy"[^{}]*\}', s)
RECURSIVE SimpleJsonFrom(_, _)
SimpleJsonFrom(s, i) ==
    IF i > Len(s) THEN <<>>
    ELSE IF SubSeq(s, i, i) = "{"
         THEN LET j == NextBrace(s, i + 1)
              IN  IF j # 0 /\ SubSeq(s, j, j) = "}"
                     /\ Contains(SubSeq(s, i + 1, j - 1), "\"strategy\"")
                  THEN <<SubSeq(s, i, j)>> \o SimpleJsonFrom(s, j + 1)
                  ELSE SimpleJsonFrom(s, i + 1)
         ELSE SimpleJsonFrom(s, i + 1)

\* re.findall(r'\{[^}]*\}', s)
RECURSIVE AnyObjectFrom(_, _)
AnyObjectFrom(s, i) ==
    IF i > Len(s) THEN <<>>
    ELSE IF SubSeq(s, i, i) = "{"
         THEN LET j == IndexFrom(s, "}", i + 1)
              IN  IF j # 0 THEN <<SubSeq(s, i, j)>> \o AnyObjectFrom(s, j + 1)
                  ELSE <<>>
         ELSE AnyObjectFrom(s, i + 1)

\* the code fence of three backquotes; a string of this module cannot hold a
\* backquote, so each is written as a tilde
Fence == "~~~"

\* the first closing brace at or after b that is followed by optional
\* whitespace and a fence, or 0
RECURSIVE FencedEnd(_, _)
FencedEnd(s, b) ==
    LET j == IndexFrom(s, "}", b)
    IN  IF j = 0 THEN 0
        ELSE LET c == SkipSpace(s, j + 1)
             IN  IF c + 2 <= Len(s) /\ SubSeq(s, c, c + 2) = Fence THEN j
                 ELSE FencedEnd(s, j + 1)

\* re.findall(open + r'\s*(\{.*?\})\s*' + fence, s, re.DOTALL)
RECURSIVE FencedFrom(_, _, _)
FencedFrom(s, open, i) ==
    LET n == Len(open)
    IN  IF i + n - 1 > Len(s) THEN <<>>
        ELSE IF SubSeq(s, i, i + n - 1) = open
             THEN LET a == SkipSpace(s, i + n)
                      b == IF a <= Len(s) /\ SubSeq(s, a, a) = "{"
                           THEN FencedEnd(s, a + 1) ELSE 0
                  IN  IF b # 0
                      THEN <<SubSeq(s, a, b)>>
                           \o FencedFrom(s, open, SkipSpace(s, b + 1) + 3)
                      ELSE FencedFrom(s, open, i + 1)
             ELSE FencedFrom(s, open, i + 1)

\* the matches of the four json_patterns, in the order they are tried
PatternMatches(s) ==
    SimpleJsonFrom(s, 1) \o AnyObjectFrom(s, 1)
    \o FencedFrom(s, Fence \o "json", 1) \o FencedFrom(s, Fence, 1)

\* the JSON texts the model's answers hold, and what json.loads makes of them;
\* json.loads raises on every other text the patterns cut out of the answers
SelectorObjectText == "{\"strategy\": \"css\", \"params\": {\"selector\": \"#zip-from\"}}"

ParamsOnlyText == "{\"selector\": \"#zip-from\"}"

KindOnlyText == "{\"strategy\": \"css\"}"

UnknownKindText == "{\"strategy\": \"image\", \"params\": {\"alt\": \"From\"}}"

\* a known kind whose params hold another kind's parameter
MissingParamText == "{\"strategy\": \"css\", \"params\": {\"xpath\": \"//div\"}}"

\* kind role without the role
RoleNoRoleText == "{\"strategy\": \"role\", \"params\": {\"name\": \"Go\"}}"

EmptyParamsText == "{\"strategy\": \"label\", \"params\": {}}"

JsonTexts ==
    {SelectorObjectText, ParamsOnlyText, KindOnlyText, UnknownKindText,
     MissingParamText, RoleNoRoleText, EmptyParamsText}

JsonValue(text) ==
    CASE text = SelectorObjectText -> Css("#zip-from")
      [] text = ParamsOnlyText -> [selector |-> "#zip-from"]
      [] text = KindOnlyText -> [strategy |-> "css"]
      [] text = UnknownKindText -> [strategy |-> "image", params |-> [alt |-> "From"]]
      [] text = MissingParamText -> [strategy |-> "css", params |-> [xpath |-> "//div"]]
      [] text = RoleNoRoleText -> RoleName("Go")
      [] text = EmptyParamsText -> [strategy |-> "label", params |-> [x \in {} |-> x]]

\* json.loads(text) gives a dict with both keys
IsStrategyJson(text) ==
    text \in JsonTexts /\ {"strategy", "params"} \subseteq DOMAIN JsonValue(text)

\* the first match that parses to a dict with "strategy" and "params"
FirstStrategyJson(ms) ==
    LET good == SelectSeq(ms, IsStrategyJson)
    IN  IF good = <<>> THEN <<>> ELSE <<JsonValue(good[1])>>

LastResortStrategy == Css("input[placeholder*='location' i]")

\* the body of propose_strategy_with_ollama after a 200 answer
ExtractStrategy(response) ==
    LET text == Strip(response)
        m    == FirstStrategyJson(PatternMatches(text))
    IN  IF m # <<>> THEN m
        ELSE IF IsStrategyJson(text) THEN <<JsonValue(text)>>
        ELSE IF Contains(Lower(text), "input") /\ Contains(Lower(text), "placeholder")
             THEN <<LastResortStrategy>>
        ELSE <<>>

\* propose_strategy_with_ollama reading the body whatever the status
ProposeStrategyWithOllama_AnyStatus(a) ==
    IF a.exc \/ a.body = "malformed" THEN <<>> ELSE ExtractStrategy(a.response)

\* propose_strategy_with_ollama: the answer of POST /api/generate turned into
\* a list of at most one strategy; every exception ends as None
ProposeStrategyWithOllama(a) ==
    IF a.exc \/ a.status # 200 \/ a.body = "malformed"
    THEN <<>>
    ELSE ExtractStrategy(a.response)

(***************************************************************************)
(* The environment: the documents the site may serve, the answers of the   *)
(* generation service, the inputs of the calls.                            *)
(***************************************************************************)
\* the site as first scraped: a labelled pickup input and a submit button
PageOriginal ==
    [alive |-> TRUE,
     present |-> {Label("Pick-up Location"), Css("input[placeholder*='pickup' i]"),
                  Css("button[type='submit']")},
     content |-> "<label>Pick-up Location<input placeholder=\"Pickup ZIP\"></label><button type=\"submit\">Go</button>"]

\* the label is gone, the placeholder is lower case
PageRenamed ==
    [alive |-> TRUE,
     present |-> {Css("input[placeholder*='pickup' i]"), Css("input[placeholder*='pickup']"),
                  Css("button[type='submit']")},
     content |-> "<input placeholder=\"pickup zip\"><button type=\"submit\">Go</button>"]

\* a redesign without form controls
PageRedesigned ==
    [alive |-> TRUE,
     present |-> {Css("#zip-from")},
     content |-> "<div id=\"zip-from\" contenteditable></div>"]

\* the page or its browsing context was closed
PageClosed ==
    [alive |-> FALSE, present |-> {}, content |-> ""]

Pages == {PageOriginal, PageRenamed, PageRedesigned, PageClosed}

\* the answers of POST /api/generate
GenAnswer(text) == [exc |-> FALSE, status |-> 200, body |-> "json", response |-> text]

GenAnswers ==
    { [exc |-> TRUE,  status |-> 0,   body |-> "json",      response |-> ""],
      [exc |-> FALSE, status |-> 500, body |-> "json",      response |-> SelectorObjectText],
      [exc |-> FALSE, status |-> 200, body |-> "malformed", response |-> ""],
      GenAnswer(SelectorObjectText),
      GenAnswer(UnknownKindText),
      GenAnswer("I cannot tell.") }

Providers == {"penske", "uhaul"}

Fields == {"pickup_input", "submit_button", "result_cards", "promo_code"}

\* strategies handed to add_strategy by a caller of the store
AddedStrategies ==
    { Css("#zip-from"),
      [strategy |-> "image", params |-> [alt |-> "From"]] }

\* the calls of the deployed scraper: it resolves and repairs, and never calls
\* the store directly
Keys == { <<"penske", "pickup_input">>, <<"penske", "submit_button">>,
          <<"penske", "promo_code">>, <<"uhaul", "pickup_input">> }

FailedInput ==
    <<Label("Pick-up Location"), Placeholder("Pick-up"), Css("input[placeholder*='pickup' i]")>>

\* a document persisted by an earlier session, with a strategy a caller added
\* through add_strategy and an entry without strategies
SavedKb ==
    [version |-> "1.0", last_updated |-> 0,
     providers |->
       [penske |->
         [pickup_input |-> <<
              [strategy |-> "label", params |-> [text |-> "Pick-up Location"],
               success_count |-> 2, last_success |-> 0],
              [strategy |-> "image", params |-> [alt |-> "From"]],
              Css("input[placeholder*='pickup' i]") >>,
          promo_code |-> <<>>]]]

(***************************************************************************)
(* State.                                                                  *)
(***************************************************************************)
VARIABLES
    kb,       \* SelectorKB.kb, the in-memory document
    disk,     \* the file kb_file
    now,      \* the last time datetime.now() returned
    page,     \* the live document
    pc,       \* where the call in progress stands
    call,     \* the call in progress and its arguments
    idx,      \* find_with_strategies: the loop index i
    loc,      \* the locator being waited for, as the strategy it was built from
    stageA,   \* find_with_ai_repair: what _ai_propose_strategy returned
    cand,     \* find_with_ai_repair: new_strategy
    result,   \* what the call returned
    log,      \* the strategies attempted by the call, with their outcomes
    svclog,   \* the requests the call sent to the generation service
    kb0,      \* kb when the call began
    disk0,    \* disk when the call began
    wfail,    \* a write of kb_file failed during the call
    used,     \* the events the run has used of MaxEvents
    peer,     \* self.kb of a second SelectorKB on the same kb_file, if there is one
    session   \* the browser and the browsing context of scrape_quotes

vars == <<kb, disk, now, page, pc, call, idx, loc, stageA, cand, result, log, svclog,
          kb0, disk0, wfail, used, peer, session>>

\* no browser was launched
NoSession == [browser |-> "none", ctx |-> "none", pending |-> "none"]

\* no second store
NoPeer == <<>>

NoCall ==
    [op |-> "none", provider |-> "", field |-> "", dom |-> "", failed |-> <<>>,
     pos |-> 0, arg |-> <<>>, live |-> FALSE, local |-> <<>>, prev |-> <<>>,
     answer |-> <<>>]

NoResult == [kind |-> "none", index |-> -1, handle |-> <<>>, strategy |-> <<>>]

\* (None, -1) of find_with_strategies and (None, None) of the repair pipeline
NotFound == [kind |-> "notfound", index |-> -1, handle |-> <<>>, strategy |-> <<>>]

\* (locator, i) of find_with_strategies
FoundAt(s, i) == [kind |-> "found", index |-> i, handle |-> <<StrategyOf(s)>>, strategy |-> <<>>]

\* (locator, new_strategy) of the repair pipeline
Repaired(s) == [kind |-> "found", index |-> -1, handle |-> <<StrategyOf(s)>>, strategy |-> <<s>>]

Idle == pc \in {"idle", "done"}

Init ==
    /\ disk \in {DiskAbsent, DiskDoc(SavedKb)}
    /\ now = 1
    /\ kb = LoadKb(disk, 1)
    /\ page \in {PageOriginal, PageRedesigned}
    /\ pc = "idle"
    /\ call = NoCall
    /\ idx = 0
    /\ loc = <<>>
    /\ stageA = <<>>
    /\ cand = <<>>
    /\ result = NoResult
    /\ log = <<>>
    /\ svclog = <<>>
    /\ kb0 = kb
    /\ disk0 = disk
    /\ wfail = FALSE
    /\ used = 0
    /\ peer = NoPeer
    /\ session = NoSession

\* a call begins: its arguments, the proposal a of Stage A where the call has
\* one, and nothing attempted yet
BeginWith(c, a) ==
    /\ Idle
    /\ call' = c
    /\ idx' = 0
    /\ loc' = <<>>
    /\ stageA' = a
    /\ cand' = a
    /\ log' = <<>>
    /\ svclog' = <<>>
    /\ kb0' = kb
    /\ disk0' = disk

Begin(c) == BeginWith(c, <<>>)

(***************************************************************************)
(* SelectorKB: the calls of the store.                                     *)
(***************************************************************************)
Returned == [NoResult EXCEPT !.kind = "returned"]

Raised == [NoResult EXCEPT !.kind = "raised"]

\* save_kb after an in-memory change m: last_updated is stamped, then the file
\* is written, and a failing write raises
SaveKb(m, w) ==
    /\ now + 1 <= MaxClock
    /\ w # "ok" => used < MaxEvents
    /\ now' = now + 1
    /\ kb' = Stamp(m, now + 1)
    /\ disk' = DiskAfterWrite(disk, kb', w)

\* the bounds used by a write with outcome w that adds n strategies
Use(w, n) == used + (IF w = "ok" THEN n ELSE 1)

\* add_strategy(p, f, s, pos)
AddStrategy(p, f, s, pos) ==
    /\ Begin([NoCall EXCEPT !.op = "add", !.provider = p, !.field = f,
                            !.pos = pos, !.arg = <<s>>])
    /\ used < MaxEvents
    /\ \E w \in WriteOutcomes :
          /\ SaveKb(AddStrategyMem(kb, p, f, s, pos), w)
          /\ result' = IF w = "ok" THEN Returned ELSE Raised
          /\ wfail' = (w # "ok")
          /\ used' = Use(w, 1)
    /\ pc' = "done"
    /\ UNCHANGED page
    /\ UNCHANGED <<peer, session>>

\* promote_strategy(p, f, i)
PromoteStrategy(p, f, i) ==
    /\ Begin([NoCall EXCEPT !.op = "promote", !.provider = p, !.field = f, !.pos = i])
    /\ IF InRange(kb, p, f, i)
       THEN \E w \in WriteOutcomes :
               /\ SaveKb(PromoteMem(kb, p, f, i), w)
               /\ result' = IF w = "ok" THEN Returned ELSE Raised
               /\ wfail' = (w # "ok")
               /\ used' = Use(w, 0)
       ELSE /\ result' = Returned
            /\ wfail' = FALSE
            /\ UNCHANGED <<kb, disk, now, used>>
    /\ pc' = "done"
    /\ UNCHANGED page
    /\ UNCHANGED <<peer, session>>

\* record_success(p, f, i) from the state k of the store: last_success is read
\* from the clock, then save_kb reads it again
RecordSuccessSave(p, f, i, w) ==
    /\ now + 2 <= MaxClock
    /\ w # "ok" => used < MaxEvents
    /\ now' = now + 2
    /\ kb' = Stamp(RecordSuccessMem(kb, p, f, i, now + 1), now + 2)
    /\ disk' = DiskAfterWrite(disk, kb', w)

RecordSuccess(p, f, i) ==
    /\ Begin([NoCall EXCEPT !.op = "record", !.provider = p, !.field = f, !.pos = i])
    /\ IF InRange(kb, p, f, i)
       THEN \E w \in WriteOutcomes :
               /\ RecordSuccessSave(p, f, i, w)
               /\ result' = IF w = "ok" THEN Returned ELSE Raised
               /\ wfail' = (w # "ok")
               /\ used' = Use(w, 0)
       ELSE /\ result' = Returned
            /\ wfail' = FALSE
            /\ UNCHANGED <<kb, disk, now, used>>
    /\ pc' = "done"
    /\ UNCHANGED page
    /\ UNCHANGED <<peer, session>>

\* SelectorKB(kb_file): a new session loads the store from the file
Restart ==
    /\ Begin(NoCall)
    /\ IF disk.kind = "doc"
       THEN UNCHANGED now
       ELSE now + 1 <= MaxClock /\ now' = now + 1
    /\ kb' = LoadKb(disk, now + 1)
    /\ pc' = "idle"
    /\ result' = NoResult
    /\ wfail' = FALSE
    /\ UNCHANGED <<disk, page, used>>
    /\ UNCHANGED <<peer, session>>

(***************************************************************************)
(* ResilientFinder.find_with_strategies.                                   *)
(***************************************************************************)
\* the list the loop enumerates: the store's own list object when the entry
\* exists, else the empty list get_strategies made for the call
CurrentList ==
    IF call.live THEN GetStrategies(kb, call.provider, call.field) ELSE call.local

Attempt(i, s, o) == [index |-> i, strategy |-> StrategyOf(s), out |-> o]

\* what the call that has just returned leaves for a resolve of (p, f): the
\* strategy and the document of a successful repair of (p, f), else nothing
Healed(p, f) ==
    IF /\ pc = "done"
       /\ call.op \in {"repair", "enhanced"}
       /\ call.provider = p
       /\ call.field = f
       /\ result.kind = "found"
    THEN <<[strategy |-> result.strategy[1], dom |-> call.dom]>>
    ELSE <<>>

\* strategies = self.kb.get_strategies(provider, field)
ResolveStart(p, f) ==
    /\ Begin([NoCall EXCEPT !.op = "resolve", !.provider = p, !.field = f,
                            !.live = HasEntry(kb, p, f),
                            !.local = GetStrategies(kb, p, f),
                            !.prev = Healed(p, f)])
    /\ pc' = "r_next"
    /\ result' = NoResult
    /\ wfail' = FALSE
    /\ UNCHANGED <<kb, disk, now, page, used>>
    /\ UNCHANGED <<peer, session>>

\* a loop that gives up at the first strategy it cannot realize
ResolveApply_Escalating ==
    /\ pc = "r_next"
    /\ idx < Len(CurrentList)
    /\ LET s == CurrentList[idx + 1]
           a == ApplyStrategy(s)
       IN  IF a = "locator"
           THEN /\ loc' = <<StrategyOf(s)>>
                /\ pc' = "r_wait"
                /\ UNCHANGED <<idx, log, result>>
           ELSE /\ log' = Append(log, Attempt(idx, s, a))
                /\ result' = NotFound
                /\ pc' = "done"
                /\ UNCHANGED <<loc, idx>>
    /\ UNCHANGED <<kb, disk, now, page, call, stageA, cand, svclog, kb0, disk0, wfail, used>>
    /\ UNCHANGED <<peer, session>>

\* one turn of the loop up to the wait: _apply_strategy on strategies[i]; no
\* locator (None, or an exception) moves on to i + 1
ResolveApply ==
    /\ pc = "r_next"
    /\ idx < Len(CurrentList)
    /\ LET s == CurrentList[idx + 1]
           a == ApplyStrategy(s)
       IN  IF a = "locator"
           THEN /\ loc' = <<StrategyOf(s)>>
                /\ pc' = "r_wait"
                /\ UNCHANGED <<idx, log>>
           ELSE /\ log' = Append(log, Attempt(idx, s, a))
                /\ idx' = idx + 1
                /\ UNCHANGED <<loc, pc>>
    /\ UNCHANGED <<kb, disk, now, page, call, stageA, cand, result, svclog, kb0, disk0, wfail, used>>
    /\ UNCHANGED <<peer, session>>

\* a loop that records the attempt in the store before it looks at the answer
\* of _validate_locator
ResolveMiss_Recording ==
    /\ pc = "r_wait"
    /\ WaitFor(page, loc[1]) # "ok"
    /\ log' = Append(log, Attempt(idx, loc[1], WaitFor(page, loc[1])))
    /\ InRange(kb, call.provider, call.field, idx)
    /\ RecordSuccessSave(call.provider, call.field, idx, "ok")
    /\ idx' = idx + 1
    /\ pc' = "r_next"
    /\ loc' = <<>>
    /\ UNCHANGED <<page, call, stageA, cand, result, svclog, kb0, disk0, wfail, used>>
    /\ UNCHANGED <<peer, session>>

\* _validate_locator answers False (timeout) or raises (fatal): continue
ResolveMiss ==
    /\ pc = "r_wait"
    /\ WaitFor(page, loc[1]) # "ok"
    /\ log' = Append(log, Attempt(idx, loc[1], WaitFor(page, loc[1])))
    /\ idx' = idx + 1
    /\ pc' = "r_next"
    /\ loc' = <<>>
    /\ UNCHANGED <<kb, disk, now, page, call, stageA, cand, result, svclog, kb0, disk0, wfail, used>>
    /\ UNCHANGED <<peer, session>>

\* _validate_locator answers True: record_success(provider, field, i), then
\* return (locator, i); an exception of record_success is caught by the
\* loop's except clause, and the loop continues
ResolveHit ==
    /\ pc = "r_wait"
    /\ WaitFor(page, loc[1]) = "ok"
    /\ log' = Append(log, Attempt(idx, loc[1], "ok"))
    /\ IF InRange(kb, call.provider, call.field, idx)
       THEN \E w \in WriteOutcomes :
               /\ RecordSuccessSave(call.provider, call.field, idx, w)
               /\ used' = Use(w, 0)
               /\ IF w = "ok"
                  THEN /\ result' = FoundAt(loc[1], idx)
                       /\ pc' = "done"
                       /\ UNCHANGED <<idx, wfail>>
                  ELSE /\ idx' = idx + 1
                       /\ pc' = "r_next"
                       /\ wfail' = TRUE
                       /\ UNCHANGED result
       ELSE /\ result' = FoundAt(loc[1], idx)
            /\ pc' = "done"
            /\ UNCHANGED <<kb, disk, now, idx, wfail, used>>
    /\ loc' = <<>>
    /\ UNCHANGED <<page, call, stageA, cand, svclog, kb0, disk0>>
    /\ UNCHANGED <<peer, session>>

\* the list is used up: return None, -1
ResolveExhausted ==
    /\ pc = "r_next"
    /\ idx >= Len(CurrentList)
    /\ result' = NotFound
    /\ pc' = "done"
    /\ UNCHANGED <<kb, disk, now, page, call, idx, loc, stageA, cand, log, svclog,
                   kb0, disk0, wfail, used>>
    /\ UNCHANGED <<peer, session>>

(***************************************************************************)
(* The site changes.                                                       *)
(***************************************************************************)
PageChange ==
    /\ used < MaxEvents
    /\ \E pg \in Pages \ {page} : page' = pg
    /\ used' = used + 1
    /\ UNCHANGED <<kb, disk, now, pc, call, idx, loc, stageA, cand, result, log, svclog,
                   kb0, disk0, wfail>>
    /\ UNCHANGED <<peer, session>>

(***************************************************************************)
(* The repair pipeline: ResilientFinder.find_with_ai_repair and            *)
(* EnhancedResilientFinder.find_with_ollama_ai_repair.                     *)
(***************************************************************************)
TagsRequest(a) ==
    [req |-> "tags", available |-> CheckOllamaAvailable(a), field |-> "", dom |-> "",
     failed |-> <<>>, answer |-> "", fault |-> Fault(a)]

\* the prompt's variable parts, and the text the service answered
GenerateRequest(c, a) ==
    [req |-> "generate", available |-> TRUE, field |-> c.field,
     dom |-> Prefix(c.dom, PromptDomChars), failed |-> Prefix(c.failed, PromptFailed),
     answer |-> a.response, fault |-> Fault(a)]

\* _ai_propose_strategy on each field and document of the model, and
\* propose_strategy_with_ollama on each answer, computed once
(***************************************************************************)
(* The site as scrape_quotes meets it: the form, and the results that      *)
(* follow the click on the submit button.                                  *)
(***************************************************************************)
\* the form as the seeded strategies expect it
SiteForm ==
    [alive |-> TRUE,
     present |-> {Label("Pick-up Location"), Label("Drop-off Location"),
                  Css("input[type='date']"), Css("button[type='submit']")},
     content |-> "<label>Pick-up Location<input><label>Drop-off Location<input><input type=date><button>"]

\* the pickup control renamed: no seeded strategy finds it, Stage A does
SiteFormPickupRenamed ==
    [alive |-> TRUE,
     present |-> {Css("input[placeholder*='pickup']"), Label("Drop-off Location"),
                  Css("input[type='date']"), Css("button[type='submit']")},
     content |-> "<input placeholder=pickup><label>Drop-off Location<input><input type=date><button>"]

\* the drop-off control renamed: no seeded strategy finds it
SiteFormDropoffRenamed ==
    [alive |-> TRUE,
     present |-> {Label("Pick-up Location"), Css("input[placeholder*='dropoff']"),
                  Css("input[type='date']"), Css("button[type='submit']")},
     content |-> "<label>Pick-up Location<input><input placeholder=dropoff><input type=date><button>"]

SiteForms == {SiteForm, SiteFormPickupRenamed, SiteFormDropoffRenamed}

\* the results as the seeded strategies expect them
SiteResults ==
    [alive |-> TRUE,
     present |-> {Css(".rate-card"), Css("h3"), Css(".price"), Css(".miles")},
     content |-> "<div class=rate-card><h3>Van</h3><b class=price>$10</b><i class=miles>50</i></div>"]

\* the cards renamed: no seeded strategy finds them, Stage A does
SiteResultsRenamed ==
    [alive |-> TRUE,
     present |-> {Css("[data-test='offer-card']"), Css("h3"), Css(".price")},
     content |-> "<div data-test=\"offer-card\"><h3>Van</h3><b class=\"price\">$10</b></div>"]

\* no cards at all
SiteResultsEmpty ==
    [alive |-> TRUE,
     present |-> {},
     content |-> "<p>No trucks</p>"]

SiteResultPages == {SiteResults, SiteResultsRenamed, SiteResultsEmpty}

\* the fields scrape_quotes resolves, in its order
RequestFields ==
    <<"pickup_input", "dropoff_input", "pickup_date", "dropoff_date", "submit_button",
      "result_cards", "truck_title", "price_element", "miles_element">>

StageAOf ==
    [f \in {k[2] : k \in Keys} \cup {RequestFields[i] : i \in 1..Len(RequestFields)},
     pg \in Pages \cup SiteForms \cup SiteResultPages |->
        AiProposeStrategy(f, pg.content, <<>>)]

StageBOf == [a \in GenAnswers |-> ProposeStrategyWithOllama(a)]

\* Stage B asked whatever Stage A proposed
StageBWanted_Always(a) == TRUE

\* if not new_strategy and ...: Stage B is asked only without a Stage A proposal
StageBWanted(a) == a = <<>>

\* find_with_ai_repair: new_strategy = self._ai_propose_strategy(...)
RepairStart(p, f, failed) ==
    /\ BeginWith([NoCall EXCEPT !.op = "repair", !.provider = p, !.field = f,
                                !.dom = page.content, !.failed = failed],
                 StageAOf[f, page])
    /\ pc' = IF StageBWanted(StageAOf[f, page]) THEN "p_probe" ELSE "p_apply"
    /\ result' = NoResult
    /\ wfail' = FALSE
    /\ UNCHANGED <<kb, disk, now, page, used>>
    /\ UNCHANGED <<peer, session>>

\* find_with_ollama_ai_repair: there is no Stage A, the probe comes first
EnhancedStart(p, f, failed) ==
    /\ Begin([NoCall EXCEPT !.op = "enhanced", !.provider = p, !.field = f,
                            !.dom = page.content, !.failed = failed])
    /\ pc' = "p_probe"
    /\ result' = NoResult
    /\ wfail' = FALSE
    /\ UNCHANGED <<kb, disk, now, page, used>>
    /\ UNCHANGED <<peer, session>>

\* a pipeline that probes and then generates whatever the probe answered
RepairProbe_Unchecked ==
    /\ pc = "p_probe"
    /\ \E a \in ProbeAnswers :
          /\ svclog' = Append(svclog, TagsRequest(a))
          /\ pc' = "p_generate"
    /\ UNCHANGED <<kb, disk, now, page, call, idx, loc, stageA, cand, result, log,
                   kb0, disk0, wfail, used>>
    /\ UNCHANGED <<peer, session>>

\* check_ollama_available(): without the service new_strategy stays None
RepairProbe ==
    /\ pc = "p_probe"
    /\ \E a \in ProbeAnswers :
          /\ svclog' = Append(svclog, TagsRequest(a))
          /\ pc' = IF CheckOllamaAvailable(a) THEN "p_generate" ELSE "p_apply"
    /\ UNCHANGED <<kb, disk, now, page, call, idx, loc, stageA, cand, result, log,
                   kb0, disk0, wfail, used>>
    /\ UNCHANGED <<peer, session>>

\* propose_strategy_with_ollama(field, dom_snippet, failed_strategies, provider)
RepairGenerate ==
    /\ pc = "p_generate"
    /\ \E a \in GenAnswers :
          /\ svclog' = Append(svclog, GenerateRequest(call, a))
          /\ cand' = StageBOf[a]
    /\ pc' = "p_apply"
    /\ UNCHANGED <<kb, disk, now, page, call, idx, loc, stageA, result, log,
                   kb0, disk0, wfail, used>>
    /\ UNCHANGED <<peer, session>>

\* if new_strategy: is false: return None, None
RepairNoCandidate ==
    /\ pc = "p_apply"
    /\ cand = <<>>
    /\ result' = NotFound
    /\ pc' = "done"
    /\ UNCHANGED <<kb, disk, now, page, call, idx, loc, stageA, cand, log, svclog,
                   kb0, disk0, wfail, used>>
    /\ UNCHANGED <<peer, session>>

\* locator = self._apply_strategy(page, new_strategy): no locator (None, or an
\* exception) ends in return None, None
RepairApply ==
    /\ pc = "p_apply"
    /\ cand # <<>>
    /\ LET a == ApplyStrategy(cand[1])
       IN  IF a = "locator"
           THEN /\ loc' = <<StrategyOf(cand[1])>>
                /\ pc' = "p_wait"
                /\ UNCHANGED <<log, result>>
           ELSE /\ log' = Append(log, Attempt(0, cand[1], a))
                /\ result' = NotFound
                /\ pc' = "done"
                /\ UNCHANGED loc
    /\ UNCHANGED <<kb, disk, now, page, call, idx, stageA, cand, svclog, kb0, disk0, wfail, used>>
    /\ UNCHANGED <<peer, session>>

\* a pipeline that commits its candidate before it looks at the answer of
\* _validate_locator
RepairMiss_Persisting ==
    /\ pc = "p_wait"
    /\ WaitFor(page, loc[1]) # "ok"
    /\ log' = Append(log, Attempt(0, loc[1], WaitFor(page, loc[1])))
    /\ SaveKb(AddStrategyMem(kb, call.provider, call.field, cand[1], 0), "ok")
    /\ result' = NotFound
    /\ pc' = "done"
    /\ loc' = <<>>
    /\ UNCHANGED <<page, call, idx, stageA, cand, svclog, kb0, disk0, wfail, used>>
    /\ UNCHANGED <<peer, session>>

\* _validate_locator answers False or raises: return None, None
RepairMiss ==
    /\ pc = "p_wait"
    /\ WaitFor(page, loc[1]) # "ok"
    /\ log' = Append(log, Attempt(0, loc[1], WaitFor(page, loc[1])))
    /\ result' = NotFound
    /\ pc' = "done"
    /\ loc' = <<>>
    /\ UNCHANGED <<kb, disk, now, page, call, idx, stageA, cand, svclog, kb0, disk0, wfail, used>>
    /\ UNCHANGED <<peer, session>>

\* _validate_locator answers True: add_strategy(provider, field, new_strategy,
\* position=0) and return (locator, new_strategy); an exception of add_strategy
\* is caught, and the pipeline returns None, None
RepairHit ==
    /\ pc = "p_wait"
    /\ WaitFor(page, loc[1]) = "ok"
    /\ log' = Append(log, Attempt(0, loc[1], "ok"))
    /\ used < MaxEvents
    /\ \E w \in WriteOutcomes :
          /\ SaveKb(AddStrategyMem(kb, call.provider, call.field, cand[1], 0), w)
          /\ result' = IF w = "ok" THEN Repaired(cand[1]) ELSE NotFound
          /\ wfail' = (w # "ok")
          /\ used' = Use(w, 1)
    /\ pc' = "done"
    /\ loc' = <<>>
    /\ UNCHANGED <<page, call, idx, stageA, cand, svclog, kb0, disk0>>
    /\ UNCHANGED <<peer, session>>

(***************************************************************************)
(* The specification: one call at a time on one store.                     *)
(***************************************************************************)
\* the positions and indices the store's callers pass for the entry (p, f)
StoreIndices(p, f) == (-1..MaxPos) \cup {Len(GetStrategies(kb, p, f))}

Next ==
    \/ \E k \in Keys : ResolveStart(k[1], k[2])
    \/ ResolveApply
    \/ ResolveMiss
    \/ ResolveHit
    \/ ResolveExhausted
    \/ \E k \in Keys : RepairStart(k[1], k[2], FailedInput)
    \/ \E k \in Keys : EnhancedStart(k[1], k[2], FailedInput)
    \/ RepairProbe
    \/ RepairGenerate
    \/ RepairNoCandidate
    \/ RepairApply
    \/ RepairMiss
    \/ RepairHit
    \/ Restart
    \/ PageChange

Spec == Init /\ [][Next]_vars

(***************************************************************************)
(* Properties of find_with_strategies.                                     *)
(***************************************************************************)
Resolving == call.op = "resolve"

Resolved == pc = "done" /\ call.op = "resolve"

\* the entry of the call's key in the KB k, as the call's arguments name it
EntryOf(k) ==
    IF HasEntry(k, call.provider, call.field)
    THEN k.providers[call.provider][call.field]
    ELSE <<>>

Oks == {j \in 1..Len(log) : log[j].out = "ok"}

\* the first attempt that realized and validated
FirstOk == CHOOSE j \in Oks : \A m \in Oks : j <= m

\* the attempts are the indices 0, 1, 2, ... in order, on the strategies the
\* entry held at these positions when the call began
InListOrder ==
    \A j \in 1..Len(log) :
        /\ log[j].index = j - 1
        /\ j <= Len(EntryOf(kb0))
        /\ log[j].strategy = StrategyOf(EntryOf(kb0)[j])

\* C1: when k is the smallest index whose strategy realizes and validates,
\* resolve returns (handle, k), having attempted exactly the strategies
\* 0..k in list order and none after k.
C1_FirstMatchWins ==
    (Resolved /\ Oks # {}) =>
        /\ result = FoundAt(log[FirstOk].strategy, log[FirstOk].index)
        /\ Len(log) = FirstOk
        /\ InListOrder

\* C2: for an empty entry or an unknown (provider, field), resolve returns
\* NotFound, realizes and validates nothing, and leaves the KB and the file alone.
C2_EmptyEntryNotFound ==
    (Resolving /\ EntryOf(kb0) = <<>>) =>
        /\ log = <<>>
        /\ loc = <<>>
        /\ pc \in {"r_next", "done"}
        /\ kb = kb0
        /\ disk = disk0
        /\ pc = "done" => result = NotFound

C2_Witness ==
    /\ Resolved
    /\ HasEntry(kb0, call.provider, call.field)
    /\ EntryOf(kb0) = <<>>
    /\ result = NotFound

\* the success counts of a list of records
Counts(list) == [j \in 1..Len(list) |-> SuccessCount(list[j])]

\* the KB without the records of the call's entry and without its timestamp
OtherEntries(k) ==
    [p \in DOMAIN k.providers |->
        [f \in DOMAIN k.providers[p] |->
            IF p = call.provider /\ f = call.field THEN <<>> ELSE k.providers[p][f]]]

\* C3: on a win at index k the winning record's success_count is one more
\* than before the call and no other record's success_count has changed.
C3_WinRecordsOnce ==
    (Resolved /\ result.kind = "found") =>
        /\ Len(EntryOf(kb)) = Len(EntryOf(kb0))
        /\ \A j \in 1..Len(EntryOf(kb)) :
              Counts(EntryOf(kb))[j] =
                 Counts(EntryOf(kb0))[j] + (IF j = result.index + 1 THEN 1 ELSE 0)
        /\ OtherEntries(kb) = OtherEntries(kb0)

\* the strategies of every entry, in order, without the bookkeeping
Order(k) ==
    [p \in DOMAIN k.providers |->
        [f \in DOMAIN k.providers[p] |-> StrategiesOf(k.providers[p][f])]]

\* C4: resolve never reorders: during and after a resolve call every entry
\* holds the strategies it held before, in the same order, and the call
\* attempts them in that order whatever their success counts.
C4_ResolveKeepsOrder ==
    Resolving =>
        /\ Order(kb) = Order(kb0)
        /\ \A j \in 1..Len(log) :
              /\ log[j].strategy = StrategyOf(EntryOf(kb0)[log[j].index + 1])
              /\ j > 1 => log[j].index = log[j - 1].index + 1

\* a win behind a record that has the smaller success count
C4_Witness ==
    /\ Resolved
    /\ result.kind = "found"
    /\ result.index > 0
    /\ SuccessCount(EntryOf(kb)[result.index + 1]) > SuccessCount(EntryOf(kb)[1])
    /\ Order(kb) = Order(kb0)

\* C5: when every strategy of a non-empty entry fails to realize or to
\* validate, resolve returns NotFound after attempting each of them, and the
\* KB and the file are as before the call.
C5_AllFailNotFound ==
    (Resolving /\ EntryOf(kb0) # <<>> /\ Oks = {}) =>
        /\ kb = kb0
        /\ disk = disk0
        /\ result.kind # "raised"
        /\ pc = "done" => (result = NotFound /\ Len(log) = Len(EntryOf(kb0)))

C5_Witness ==
    /\ Resolved
    /\ EntryOf(kb0) # <<>>
    /\ result = NotFound
    /\ \E j \in 1..Len(log) : log[j].out = "error"
    /\ \E j \in 1..Len(log) : log[j].out = "timeout"
    /\ Oks = {}

\* C6: a strategy that cannot be realized (unknown kind, missing parameter)
\* is skipped without raising and the next strategy of the list is attempted;
\* after the last one the call returns NotFound.
C6_UnrealizableSkipped ==
    Resolving =>
        \A j \in 1..Len(log) :
            log[j].out \in {"none", "error"} =>
                /\ result.kind # "raised"
                /\ IF j < Len(log)
                   THEN log[j + 1].index = log[j].index + 1
                   ELSE \/ pc \in {"r_next", "r_wait"} /\ idx = log[j].index + 1
                        \/ /\ pc = "done"
                           /\ result = NotFound
                           /\ log[j].index + 1 = Len(EntryOf(kb))

C6_Witness ==
    /\ Resolved
    /\ result.kind = "found"
    /\ \E j \in 1..Len(log) : log[j].out = "error"
    /\ log[Len(log)].out = "ok"

\* a finder call that a failing write of the file went through
WriteFailed == pc = "done" /\ wfail /\ call.op \in {"resolve", "repair", "enhanced"}

\* C7: a failing write of the file leaves the result of the call as it would
\* be: resolve returns (handle, k) for the strategy that validated, the
\* repair pipeline returns the validated handle and the new strategy.
C7_WriteFailureKeepsResult ==
    WriteFailed =>
        IF call.op = "resolve"
        THEN result = FoundAt(log[FirstOk].strategy, log[FirstOk].index)
        ELSE result = Repaired(cand[1])

\* C8: a failing write of the file during resolve or repair reaches the caller
\* as an outcome of its own, distinct from the plain found and not-found results.
C8_WriteFailureSurfaced ==
    WriteFailed => result.kind \notin {"found", "notfound"}

(***************************************************************************)
(* Properties of the repair pipeline.                                      *)
(***************************************************************************)
Probed == \E j \in 1..Len(svclog) : svclog[j].req = "tags"

ProbeFailed == \E j \in 1..Len(svclog) : svclog[j].req = "tags" /\ ~svclog[j].available

Generated == \E j \in 1..Len(svclog) : svclog[j].req = "generate"

\* C9: Stage B (the probe and the generation call) is invoked only when
\* Stage A proposed nothing; with a Stage A candidate, validated or not, no
\* request goes to the service.
C9_StageBOnlyWithoutStageA ==
    (call.op = "repair" /\ stageA # <<>>) => svclog = <<>>

\* a Stage A candidate that failed validation, and still no Stage B
C9_Witness ==
    /\ pc = "done"
    /\ call.op = "repair"
    /\ stageA # <<>>
    /\ result = NotFound
    /\ \E j \in 1..Len(log) : log[j].out = "timeout"

\* C10: after a failed probe the generation endpoint is not called, the
\* candidate is the one Stage A left (none), and the pipeline returns NotFound
\* with the KB and the file as before.
C10_ProbeFailureSkipsGeneration ==
    (call.op \in {"repair", "enhanced"} /\ ProbeFailed) =>
        /\ ~Generated
        /\ cand = stageA
        /\ kb = kb0
        /\ disk = disk0
        /\ pc = "done" => result = NotFound

C10_Witness ==
    /\ pc = "done"
    /\ call.op = "repair"
    /\ ProbeFailed
    /\ result = NotFound

Repairing == call.op \in {"repair", "enhanced"}

\* the candidate was realized and its validation failed
ValidationFailed ==
    /\ Repairing
    /\ log # <<>>
    /\ log[1].out \in {"timeout", "fatal"}

\* C11: when the selected candidate, of Stage A or of Stage B, fails
\* validation, the pipeline returns NotFound without a call of add_strategy:
\* the KB in memory and the file are as before the pipeline ran.
C11_ValidationFailureNoCommit ==
    ValidationFailed =>
        /\ pc = "done"
        /\ result = NotFound
        /\ cand # <<>>
        /\ kb = kb0
        /\ disk = disk0

\* a Stage B candidate that failed validation
C11_Witness ==
    /\ ValidationFailed
    /\ pc = "done"
    /\ stageA = <<>>
    /\ Generated
    /\ cand # <<>>
    /\ result = NotFound

\* the candidate was realized and validated
Validated ==
    /\ Repairing
    /\ pc = "done"
    /\ log # <<>>
    /\ log[1].out = "ok"

\* C12: when the candidate validates, the pipeline returns (handle, strategy)
\* and has committed exactly that strategy at position 0: it is the first
\* record of the entry, the entry is one record longer, and the earlier
\* records follow in their previous order.
C12_ValidatedCandidateCommitted ==
    Validated =>
        /\ result = Repaired(cand[1])
        /\ GetStrategies(kb, call.provider, call.field) =
              <<cand[1]>> \o GetStrategies(kb0, call.provider, call.field)

(***************************************************************************)
(* One field of one provider, resolved and repaired in one session.        *)
(***************************************************************************)
\* the session starts without a file; of its events one more than MaxEvents
\* is left, for a repair that commits and a write that fails
HealInit ==
    /\ disk = DiskAbsent
    /\ now = 1
    /\ kb = LoadKb(disk, 1)
    /\ page \in {PageOriginal, PageRedesigned}
    /\ pc = "idle"
    /\ call = NoCall
    /\ idx = 0
    /\ loc = <<>>
    /\ stageA = <<>>
    /\ cand = <<>>
    /\ result = NoResult
    /\ log = <<>>
    /\ svclog = <<>>
    /\ kb0 = kb
    /\ disk0 = disk
    /\ wfail = FALSE
    /\ used = 0 - 1
    /\ peer = NoPeer
    /\ session = NoSession

HealNext ==
    \/ ResolveStart("penske", "pickup_input")
    \/ ResolveApply
    \/ ResolveMiss
    \/ ResolveHit
    \/ ResolveExhausted
    \/ RepairStart("penske", "pickup_input", FailedInput)
    \/ RepairProbe
    \/ RepairGenerate
    \/ RepairNoCandidate
    \/ RepairApply
    \/ RepairMiss
    \/ RepairHit

SpecHeal == HealInit /\ [][HealNext]_vars

\* C13: the resolve that follows a successful repair of the same (provider,
\* field) attempts the repaired strategy first, at index 0, and on an
\* unchanged document returns it with index 0.
C13_RepairedStrategyFirst ==
    (Resolving /\ call.prev # <<>>) =>
        /\ log # <<>> =>
              /\ log[1].index = 0
              /\ log[1].strategy = StrategyOf(call.prev[1].strategy)
        /\ (pc = "done" /\ page.content = call.prev[1].dom) =>
              result = FoundAt(call.prev[1].strategy, 0)

\* the requests of the call that the service failed to answer properly
Faults == {j \in 1..Len(svclog) : svclog[j].fault # "none"}

\* C14: the pipeline never raises because of the service: an unreachable or
\* timed-out service, a non-success status or a malformed body, in the probe
\* or in the generation call, leaves the pipeline without a proposal, and it
\* returns NotFound with the KB and the file untouched.
C14_ServiceFaultsAreNoProposal ==
    Repairing =>
        /\ result.kind # "raised"
        /\ \A j \in Faults :
              /\ cand = <<>>
              /\ log = <<>>
              /\ kb = kb0
              /\ disk = disk0
              /\ svclog[j].req = "tags" => ~Generated
              /\ pc = "done" => result = NotFound

\* a generation call answered with a body that is not JSON
C14_Witness ==
    /\ pc = "done"
    /\ call.op = "repair"
    /\ \E j \in Faults : svclog[j].req = "generate" /\ svclog[j].fault = "body"
    /\ result = NotFound

(***************************************************************************)
(* The two stages on their own: _ai_propose_strategy on a field and a       *)
(* document, propose_strategy_with_ollama on an answer of the service.     *)
(***************************************************************************)
StageFields == {"pickup_input", "dropoff_input", "pickup_date", "submit_button", "result_cards"}

TestIdDom == "<input data-test=\"pickup-location\"><button>Go</button>"

TestIdOnlyDom == "<div data-test=\"pickup-location\"></div>"

TestIdInputDom == "<div data-test=\"pickup-input\"></div><div data-test=\"promo\"></div>"

AriaDom == "<div aria-label=\"Pickup date\"></div>"

StageDoms == {pg.content : pg \in Pages} \cup {TestIdDom, TestIdOnlyDom, TestIdInputDom, AriaDom}

\* the shapes in which an answer holds a JSON text
Bare(o) == o

InProse(o) == "Use this one: " \o o \o " It should work."

FencedJson(o) == "Here it is:\n" \o Fence \o "json\n" \o o \o "\n" \o Fence

FencedPlain(o) == Fence \o "\n" \o o \o "\n" \o Fence \o "\nDone."

AfterHint(o) == "For the input with a placeholder: " \o o

ProseTexts ==
    { "", "I cannot tell.", "Look for the input element by its placeholder.",
      "Try {the first INPUT}, it has a Placeholder." }

ResponseTexts ==
    ProseTexts
    \cup { Bare(o) : o \in JsonTexts } \cup { InProse(o) : o \in JsonTexts }
    \cup { FencedJson(o) : o \in JsonTexts } \cup { FencedPlain(o) : o \in JsonTexts }
    \cup { AfterHint(o) : o \in JsonTexts }
    \cup { "  " \o o \o "\n" : o \in JsonTexts }

StagesInit ==
    /\ disk = DiskAbsent
    /\ now = 1
    /\ kb = LoadKb(disk, 1)
    /\ page = PageOriginal
    /\ pc = "s_call"
    /\ call \in
          { [NoCall EXCEPT !.op = "propose", !.field = f, !.dom = d, !.failed = FailedInput] :
                f \in StageFields, d \in StageDoms }
          \cup
          { [NoCall EXCEPT !.op = "generate", !.provider = "penske", !.field = "pickup_input",
                           !.dom = PageRedesigned.content, !.failed = FailedInput,
                           !.answer = <<GenAnswer(t)>>] : t \in ResponseTexts }
    /\ idx = 0
    /\ loc = <<>>
    /\ stageA = <<>>
    /\ cand = <<>>
    /\ result = NoResult
    /\ log = <<>>
    /\ svclog = <<>>
    /\ kb0 = kb
    /\ disk0 = disk
    /\ wfail = FALSE
    /\ used = 0
    /\ peer = NoPeer
    /\ session = NoSession

\* self._ai_propose_strategy(field, dom_snippet, failed_strategies)
ProposeCall ==
    /\ pc = "s_call"
    /\ call.op = "propose"
    /\ stageA' = AiProposeStrategy(call.field, call.dom, call.failed)
    /\ cand' = stageA'
    /\ result' = Returned
    /\ pc' = "done"
    /\ UNCHANGED <<kb, disk, now, page, call, idx, loc, log, svclog, kb0, disk0, wfail, used>>
    /\ UNCHANGED <<peer, session>>

\* self.ollama_repair.propose_strategy_with_ollama(field, dom_snippet,
\* failed_strategies, provider): it returns, whatever the answer
GenerateCall ==
    /\ pc = "s_call"
    /\ call.op = "generate"
    /\ svclog' = <<GenerateRequest(call, call.answer[1])>>
    /\ cand' = ProposeStrategyWithOllama(call.answer[1])
    /\ result' = Returned
    /\ pc' = "done"
    /\ UNCHANGED <<kb, disk, now, page, call, idx, loc, stageA, log, kb0, disk0, wfail, used>>
    /\ UNCHANGED <<peer, session>>

StagesNext == ProposeCall \/ GenerateCall

SpecStages == StagesInit /\ [][StagesNext]_vars

\* propose_strategy_with_ollama has returned on the answer text t
Answered(t) ==
    /\ pc = "done"
    /\ call.op = "generate"
    /\ call.answer[1].response = t

\* C15: a response text without any "strategy" key yields no candidate and no
\* exception, whatever else it contains.
C15_NoStrategyKeyNoCandidate ==
    \A t \in ResponseTexts :
        (Answered(t) /\ ~Contains(t, "\"strategy\"")) =>
            /\ cand = <<>>
            /\ result = Returned

WellFormedTexts == {o \in JsonTexts : IsStrategyJson(o)}

\* C16: a response that embeds one well-formed {strategy, params} object
\* yields that object as the candidate, whether the object stands alone, is
\* surrounded by prose, or sits in a fenced code block.
C16_EmbeddedObjectExtracted ==
    \A o \in WellFormedTexts :
        (Answered(Bare(o)) \/ Answered(InProse(o)) \/ Answered(FencedJson(o))) =>
            cand = <<JsonValue(o)>>

\* the proposals of Stage A that come from the generic button heuristic
IsButtonProposal(s) == \E k \in 1..Len(ButtonProposals) : ButtonProposals[k] = s

\* C17: for field "pickup_input" and a document with
\* data-test="pickup-location", the proposals of Stage A hold a selector on
\* that data-test attribute, ranked before every button-based proposal.
C17_TestIdProposedFirst ==
    (/\ pc = "done"
     /\ call.op = "propose"
     /\ call.field = "pickup_input"
     /\ Contains(call.dom, "data-test=\"pickup-location\"")) =>
        LET ps == Proposals(call.field, call.dom)
        IN  \E i \in 1..Len(ps) :
                /\ ps[i] = Css("[data-test='pickup-location']")
                /\ \A j \in 1..Len(ps) : IsButtonProposal(ps[j]) => i < j

(***************************************************************************)
(* The store on its own: the calls of SelectorKB in any order.             *)
(***************************************************************************)
\* the keys the store is called with: a seeded entry, a field and a provider
\* the seeded document does not hold
StoreKeys == { <<"penske", "pickup_input">>, <<"penske", "promo_code">>,
               <<"uhaul", "pickup_input">> }

StoreInit == Init /\ page = PageOriginal

\* add_strategy called any number of times, across sessions
AddNext ==
    \/ \E k \in StoreKeys, s \in AddedStrategies :
          \E pos \in StoreIndices(k[1], k[2]) : AddStrategy(k[1], k[2], s, pos)
    \/ Restart

SpecAdd == StoreInit /\ [][AddNext]_vars

\* record_success called any number of times, across sessions
RecordNext ==
    \/ \E k \in StoreKeys :
          \E i \in StoreIndices(k[1], k[2]) : RecordSuccess(k[1], k[2], i)
    \/ Restart

SpecRecord == StoreInit /\ [][RecordNext]_vars

\* promote_strategy called any number of times, across sessions
PromoteNext ==
    \/ \E k \in StoreKeys :
          \E i \in StoreIndices(k[1], k[2]) : PromoteStrategy(k[1], k[2], i)
    \/ Restart

SpecPromote == StoreInit /\ [][PromoteNext]_vars

\* a call of the store has returned or raised
StoreDone(op) == pc = "done" /\ call.op = op

\* the entry of the call's key before and after the call
Before == GetStrategies(kb0, call.provider, call.field)

After == GetStrategies(kb, call.provider, call.field)

\* every entry of the KB before the call, but that of the call's key, is as it was
OthersKept ==
    \A q \in DOMAIN kb0.providers :
        /\ q \in DOMAIN kb.providers
        /\ \A g \in DOMAIN kb0.providers[q] :
              (q # call.provider \/ g # call.field) =>
                  /\ g \in DOMAIN kb.providers[q]
                  /\ kb.providers[q][g] = kb0.providers[q][g]

\* C18: add_strategy(p, f, s, position) creates the provider and the field
\* when missing and inserts s without de-duplication: the entry is one record
\* longer, with position 0 s is the first record and the earlier records
\* follow, with position equal to the length s is the last record.
C18_AddInserts ==
    StoreDone("add") =>
        /\ HasEntry(kb, call.provider, call.field)
        /\ Len(After) = Len(Before) + 1
        /\ call.pos = 0 => After = <<call.arg[1]>> \o Before
        /\ call.pos = Len(Before) => After = Before \o <<call.arg[1]>>
        /\ OthersKept

\* a strategy appended to an entry that already holds an equal record
C18_Witness ==
    /\ StoreDone("add")
    /\ call.pos = Len(Before)
    /\ call.pos > 0
    /\ \E j \in 1..Len(Before) : Before[j] = call.arg[1]
    /\ After = Before \o <<call.arg[1]>>

\* the keys of a record other than the two record_success writes
Rest(r) == [key \in DOMAIN r \ {"success_count", "last_success"} |-> r[key]]

\* C19: a call of record_success(p, f, i) with i in range adds one to the
\* record's success_count (from 0 when absent) and sets last_success to the
\* time of the call, later than before, so M calls give a count of M; a call
\* with i out of range or an unknown provider or field changes nothing.
C19_RecordSuccessCounts ==
    StoreDone("record") =>
        IF InRange(kb0, call.provider, call.field, call.pos)
        THEN /\ Len(After) = Len(Before)
             /\ \A j \in 1..Len(After) :
                   IF j = call.pos + 1
                   THEN /\ After[j].success_count = SuccessCount(Before[j]) + 1
                        /\ After[j].last_success = now - 1
                        /\ "last_success" \in DOMAIN Before[j] =>
                              Before[j].last_success < After[j].last_success
                        /\ Rest(After[j]) = Rest(Before[j])
                   ELSE After[j] = Before[j]
             /\ OthersKept
        ELSE kb = kb0 /\ disk = disk0

\* the second of two calls on a record that began without a count
C19_Witness ==
    /\ StoreDone("record")
    /\ InRange(kb0, call.provider, call.field, call.pos)
    /\ SuccessCount(Before[call.pos + 1]) = 1
    /\ After[call.pos + 1].success_count = 2
    /\ Before[call.pos + 1].last_success < After[call.pos + 1].last_success

\* a list without its element at index i (from 0)
Without(list, i) ==
    [k \in 1..(Len(list) - 1) |-> IF k <= i THEN list[k] ELSE list[k + 1]]

\* C20: promote(p, f, i) with i in range moves the record at index i to
\* index 0, keeps the length and the relative order of the other records;
\* with i out of range or an unknown key it changes nothing.
C20_PromoteMovesToFront ==
    StoreDone("promote") =>
        IF InRange(kb0, call.provider, call.field, call.pos)
        THEN /\ Len(After) = Len(Before)
             /\ After = <<Before[call.pos + 1]>> \o Without(Before, call.pos)
             /\ OthersKept
        ELSE kb = kb0 /\ disk = disk0

\* the third record moved in front of two others
C20_Witness ==
    /\ StoreDone("promote")
    /\ InRange(kb0, call.provider, call.field, call.pos)
    /\ call.pos = 2
    /\ After[1] = Before[3]
    /\ After[2] = Before[1]
    /\ After[3] = Before[2]
    /\ After[1] # After[2]

(***************************************************************************)
(* The store read and loaded: get_strategies, and a store opened on a file *)
(* that is absent, unparseable, written by the store, or a JSON text that  *)
(* is no KB document.                                                      *)
(***************************************************************************)
\* the parsed value of a file holding {"version": "1.0"}
ForeignDoc == [version |-> "1.0"]

\* what the store writes holds the three keys of a KB document
WellFormedKb(k) == {"version", "last_updated", "providers"} \subseteq DOMAIN k

LoadInit ==
    /\ disk \in {DiskAbsent, DiskGarbage, DiskDoc(SavedKb), DiskDoc(ForeignDoc)}
    /\ now = 1
    /\ kb = LoadKb(disk, 1)
    /\ page = PageOriginal
    /\ pc = "idle"
    /\ call = NoCall
    /\ idx = 0
    /\ loc = <<>>
    /\ stageA = <<>>
    /\ cand = <<>>
    /\ result = NoResult
    /\ log = <<>>
    /\ svclog = <<>>
    /\ kb0 = kb
    /\ disk0 = disk
    /\ wfail = FALSE
    /\ used = 0
    /\ peer = NoPeer
    /\ session = NoSession

\* get_strategies that creates the entry it does not find
GetStrategiesCall_Creating(p, f) ==
    /\ Begin([NoCall EXCEPT !.op = "get", !.provider = p, !.field = f,
                            !.local = GetStrategies(kb, p, f)])
    /\ kb' = WithList(kb, p, f, GetStrategies(kb, p, f))
    /\ result' = Returned
    /\ wfail' = FALSE
    /\ pc' = "done"
    /\ UNCHANGED <<disk, now, page, used>>
    /\ UNCHANGED <<peer, session>>

\* get_strategies(p, f): the list it returns is call.local
GetStrategiesCall(p, f) ==
    /\ Begin([NoCall EXCEPT !.op = "get", !.provider = p, !.field = f,
                            !.local = GetStrategies(kb, p, f)])
    /\ result' = Returned
    /\ wfail' = FALSE
    /\ pc' = "done"
    /\ UNCHANGED <<kb, disk, now, page, used>>
    /\ UNCHANGED <<peer, session>>

\* the store read and extended, across sessions
GetNext ==
    \/ \E k \in StoreKeys : GetStrategiesCall(k[1], k[2])
    \/ \E k \in StoreKeys, s \in AddedStrategies :
          \E pos \in StoreIndices(k[1], k[2]) : AddStrategy(k[1], k[2], s, pos)
    \/ Restart

SpecGet == LoadInit /\ [][GetNext]_vars

\* C21: get_strategies returns an empty sequence for an unknown provider or
\* an unknown field, does not raise, and leaves the KB without the provider
\* or field it did not find.
C21_UnknownKeyReadsEmpty ==
    (StoreDone("get") /\ ~HasEntry(kb0, call.provider, call.field)) =>
        /\ result = Returned
        /\ call.local = <<>>
        /\ kb = kb0
        /\ disk = disk0
        /\ ~HasEntry(kb, call.provider, call.field)

\* an unknown provider read in a KB that holds another provider
C21_Witness ==
    /\ StoreDone("get")
    /\ call.provider = "uhaul"
    /\ call.local = <<>>
    /\ "penske" \in DOMAIN ProvidersOf(kb)
    /\ "uhaul" \notin DOMAIN ProvidersOf(kb)

\* every call of the store, on every file the store can be opened on
LoadKeys == { <<"penske", "pickup_input">>, <<"uhaul", "pickup_input">> }

LoadNext ==
    \/ \E k \in LoadKeys : GetStrategiesCall(k[1], k[2])
    \/ \E k \in LoadKeys :
          \E pos \in {0, Len(GetStrategies(kb, k[1], k[2]))} :
              AddStrategy(k[1], k[2], Css("#zip-from"), pos)
    \/ \E k \in LoadKeys : \E i \in 0..1 : PromoteStrategy(k[1], k[2], i)
    \/ \E k \in LoadKeys : \E i \in 0..1 : RecordSuccess(k[1], k[2], i)
    \/ Restart

SpecLoad == LoadInit /\ [][LoadNext]_vars

\* the store has just been opened on a file that is absent or holds no
\* well-formed KB document
OpenedOnCorrupt ==
    /\ pc = "idle"
    /\ \/ disk.kind # "doc"
       \/ ~WellFormedKb(JsonLoad(disk.doc))

\* C22: loading never raises, and a store opened on an absent or corrupt
\* file (unreadable, or no well-formed KB document) holds the seeded default.
C22_CorruptLoadsDefault ==
    OpenedOnCorrupt =>
        /\ result.kind # "raised"
        /\ WellFormedKb(kb)
        /\ ProvidersOf(kb) = DefaultProviders

\* a new store has just been opened on the file the store before it wrote
\* from its memory kb0
ReopenedOnPersisted ==
    /\ pc = "idle"
    /\ call.op = "none"
    /\ disk.kind = "doc"
    /\ disk.doc = JsonDump(kb0)

\* C23: a KB reached by store calls, persisted and loaded in a new store, has
\* the same providers, the same fields and the same ordered strategy records
\* for every (provider, field).
C23_RoundTrip ==
    ReopenedOnPersisted =>
        /\ DOMAIN kb = DOMAIN kb0
        /\ ProvidersOf(kb) = ProvidersOf(kb0)

\* the reloaded KB holds a provider that was added and a record that has
\* counted a success
C23_Witness ==
    /\ ReopenedOnPersisted
    /\ now > 1
    /\ HasEntry(kb, "uhaul", "pickup_input")
    /\ \E i \in 1..Len(GetStrategies(kb, "uhaul", "pickup_input")) :
          SuccessCount(GetStrategies(kb, "uhaul", "pickup_input")[i]) > 0

(***************************************************************************)
(* The life of the records: every call that changes the store, of the      *)
(* store's API and of the finder, on one store.                            *)
(***************************************************************************)
LifeKey == <<"penske", "pickup_input">>

\* the positions and indices passed to the store
LifeIndices == 0..1

\* the store holds the saved document
LifeInit == Init /\ disk = DiskDoc(SavedKb)

LifeNext ==
    \/ \E pos \in LifeIndices :
          AddStrategy(LifeKey[1], LifeKey[2], [strategy |-> "image", params |-> [alt |-> "From"]], pos)
    \/ \E i \in LifeIndices : PromoteStrategy(LifeKey[1], LifeKey[2], i)
    \/ \E i \in LifeIndices : RecordSuccess(LifeKey[1], LifeKey[2], i)
    \/ ResolveStart(LifeKey[1], LifeKey[2])
    \/ ResolveApply
    \/ ResolveMiss
    \/ ResolveHit
    \/ ResolveExhausted
    \/ RepairStart(LifeKey[1], LifeKey[2], FailedInput)
    \/ EnhancedStart(LifeKey[1], LifeKey[2], FailedInput)
    \/ RepairProbe
    \/ RepairGenerate
    \/ RepairNoCandidate
    \/ RepairApply
    \/ RepairMiss
    \/ RepairHit

SpecLife == LifeInit /\ [][LifeNext]_vars

\* a call that changes the store is under way or over
Mutating == call.op \in {"add", "promote", "record", "resolve", "repair", "enhanced"}

\* the number of records list.insert(pos, .) leaves before the new one
Landing(n, pos) ==
    IF pos < 0 THEN (IF n + pos < 0 THEN 0 ELSE n + pos)
    ELSE IF pos > n THEN n ELSE pos

\* where the call has put the record that was the j-th of its entry: an
\* insert shifts the records behind it, the pipeline inserts at the front,
\* promote moves one record to the front and shifts those before it
PlaceNow(j) ==
    CASE call.op = "add" /\ Len(After) > Len(Before) ->
            IF j <= Landing(Len(Before), call.pos) THEN j ELSE j + 1
      [] call.op \in {"repair", "enhanced"} /\ Len(After) > Len(Before) -> j + 1
      [] call.op = "promote" /\ StoreDone("promote")
                             /\ InRange(kb0, call.provider, call.field, call.pos) ->
            IF j = call.pos + 1 THEN 1
            ELSE IF j <= call.pos THEN j + 1 ELSE j
      [] OTHER -> j

\* C24: across add_strategy, promote, record_success, resolve and repair
\* calls the success_count of a record never decreases, and the record that
\* promote moves or an insert shifts keeps its strategy and its count.
C24_CountNeverDecreases ==
    Mutating =>
        \A j \in 1..Len(Before) :
            /\ PlaceNow(j) \in 1..Len(After)
            /\ StrategyOf(After[PlaceNow(j)]) = StrategyOf(Before[j])
            /\ SuccessCount(After[PlaceNow(j)]) >= SuccessCount(Before[j])
            /\ call.op \in {"add", "promote", "repair", "enhanced"} =>
                  SuccessCount(After[PlaceNow(j)]) = SuccessCount(Before[j])

\* a record with successes counted has been shifted by an insert
C24_Witness ==
    /\ StoreDone("add")
    /\ call.pos = 0
    /\ Len(Before) > 0
    /\ SuccessCount(Before[1]) = 2
    /\ SuccessCount(After[2]) = 2

\* the records of a list that hold the strategy s
Holding(list, s) == {j \in 1..Len(list) : StrategyOf(list[j]) = s}

\* C25: across add_strategy, promote, record_success, resolve and repair
\* calls no field entry and no strategy record is removed: the entry that
\* existed exists, and holds every strategy at least as often as before.
C25_NothingRemoved ==
    Mutating =>
        /\ HasEntry(kb0, call.provider, call.field) =>
              HasEntry(kb, call.provider, call.field)
        /\ OthersKept
        /\ Len(After) >= Len(Before)
        /\ \A j \in 1..Len(Before) :
              Cardinality(Holding(After, StrategyOf(Before[j])))
                 >= Cardinality(Holding(Before, StrategyOf(Before[j])))

\* a strategy the entry held was added once more in the middle of the entry
C25_Witness ==
    /\ StoreDone("add")
    /\ call.pos = 1
    /\ Len(Before) > 1
    /\ Cardinality(Holding(Before, call.arg[1])) = 1
    /\ Cardinality(Holding(After, call.arg[1])) = 2

\* a call of the store that changes the KB has returned
MutationReturned ==
    /\ pc = "done"
    /\ result = Returned
    /\ \/ call.op = "add"
       \/ /\ call.op \in {"promote", "record"}
          /\ InRange(kb0, call.provider, call.field, call.pos)

\* C26: after every mutating call of the store that returns (add_strategy,
\* promote and record_success with an index in range) the file holds the
\* complete in-memory KB, every provider, field and record in order: what a
\* load would read is what the store holds.
C26_FlushedWhole ==
    MutationReturned =>
        /\ disk.kind = "doc"
        /\ JsonLoad(disk.doc) = kb

\* a record_success that returns after an add_strategy whose write failed:
\* the file holds the entry that was added, too
C26_Witness ==
    /\ MutationReturned
    /\ call.op = "record"
    /\ call.provider = "penske"
    /\ disk0 = DiskGarbage
    /\ HasEntry(kb, "uhaul", "pickup_input")
    /\ HasEntry(JsonLoad(disk.doc), "uhaul", "pickup_input")

(***************************************************************************)
(* The session is gone while a strategy is realized or validated.          *)
(***************************************************************************)
\* a call of the finder is over, and a wait of it was answered by an error
\* of the session and not by a timeout
SessionFailedDuringCall ==
    /\ pc = "done"
    /\ call.op \in {"resolve", "repair", "enhanced"}
    /\ \E i \in 1..Len(log) : log[i].out = "fatal"

\* C27: a fatal error of the session, raised while a strategy is realized
\* or validated, is reported as a distinct 'automation session failed'
\* error: neither resolve nor the repair pipeline answers NotFound for it.
C27_SessionFailureDistinct ==
    SessionFailedDuringCall =>
        /\ result # NotFound
        /\ result.kind = "session_failed"

(***************************************************************************)
(* The consumer: PenskeAdapter.scrape_quotes on its own store and finder.  *)
(***************************************************************************)
\* the fields scrape_quotes repairs
Repairable == {"pickup_input", "result_cards"}

\* the fields of the form before the submit button, and those of a card
FormInputs == {"pickup_input", "dropoff_input", "pickup_date", "dropoff_date"}

CardFields == {"truck_title", "price_element", "miles_element"}

\* the field scrape_quotes resolves after f
FieldAfter(f) ==
    RequestFields[(CHOOSE i \in 1..Len(RequestFields) : RequestFields[i] = f) + 1]

\* the finder call that has just ended: which call, and how it answered
LastAnswer == <<call.op, result.kind>>

RequestInit ==
    /\ disk \in {DiskAbsent, DiskDoc(SavedKb)}
    /\ now = MaxClock - RequestClock
    /\ kb = LoadKb(disk, now)
    /\ page = SiteForm
    /\ pc = "idle"
    /\ call = NoCall
    /\ idx = 0
    /\ loc = <<>>
    /\ stageA = <<>>
    /\ cand = <<>>
    /\ result = NoResult
    /\ log = <<>>
    /\ svclog = <<>>
    /\ kb0 = kb
    /\ disk0 = disk
    /\ wfail = FALSE
    /\ used = 0 - 1
    /\ peer = NoPeer
    /\ session = NoSession

\* scrape_quotes up to page.goto: a new page on the site; the store serves
\* one request
OpenSite ==
    /\ pc = "idle"
    /\ call.op = "none"
    /\ Begin([NoCall EXCEPT !.op = "goto"])
    /\ \E pg \in SiteForms : page' = pg
    /\ pc' = "done"
    /\ result' = Returned
    /\ wfail' = FALSE
    /\ UNCHANGED <<kb, disk, now, used>>
    /\ UNCHANGED <<peer, session>>

\* _fill_form_resilient begins: find_with_strategies for the pickup input
FillPickup ==
    /\ pc = "done"
    /\ call.op = "goto"
    /\ ResolveStart("penske", "pickup_input")

\* a field of the form was found or repaired, and filled: the next field
FillNext ==
    /\ pc = "done"
    /\ call.op \in {"resolve", "repair"}
    /\ call.field \in FormInputs
    /\ result.kind = "found"
    /\ ResolveStart("penske", FieldAfter(call.field))

\* _submit_form_resilient: the click, and the results that load
Submit ==
    /\ pc = "done"
    /\ call.op = "resolve"
    /\ call.field = "submit_button"
    /\ result.kind = "found"
    /\ Begin([NoCall EXCEPT !.op = "click"])
    /\ \E pg \in SiteResultPages : page' = pg
    /\ pc' = "done"
    /\ result' = Returned
    /\ wfail' = FALSE
    /\ UNCHANGED <<kb, disk, now, used>>
    /\ UNCHANGED <<peer, session>>

\* _parse_results_resilient begins: find_with_strategies for the cards
FindCards ==
    /\ pc = "done"
    /\ call.op = "click"
    /\ ResolveStart("penske", "result_cards")

\* the cards were found or repaired: _parse_single_card resolves the title;
\* a card field that is not found falls back to a fixed locator
ParseNext ==
    /\ pc = "done"
    /\ \/ /\ call.op \in {"resolve", "repair"}
          /\ call.field = "result_cards"
          /\ result.kind = "found"
       \/ /\ call.op = "resolve"
          /\ call.field \in {"truck_title", "price_element"}
    /\ ResolveStart("penske", FieldAfter(call.field))

\* a consumer that asks for a repair whatever the resolve answered
RepairField_Always ==
    /\ pc = "done"
    /\ call.op = "resolve"
    /\ call.field \in Repairable
    /\ page.alive
    /\ RepairStart(call.provider, call.field, <<>>)

\* the else branch of the pickup input and of the cards: page.content(),
\* then find_with_ai_repair with an empty list of failed strategies
RepairField ==
    /\ pc = "done"
    /\ call.op = "resolve"
    /\ call.field \in Repairable
    /\ result = NotFound
    /\ page.alive
    /\ RepairStart(call.provider, call.field, <<>>)

\* scrape_quotes raises: a field without a repair branch was not found, the
\* repair found nothing, or page.content() raised on a page that is gone
RequestFails ==
    /\ pc = "done"
    /\ result = NotFound
    /\ \/ call.op = "repair"
       \/ /\ call.op = "resolve"
          /\ call.field \notin CardFields
          /\ call.field \notin Repairable \/ ~page.alive
    /\ Begin([NoCall EXCEPT !.op = "request_failed", !.provider = call.provider,
                            !.field = call.field, !.arg = LastAnswer])
    /\ pc' = "idle"
    /\ result' = Raised
    /\ wfail' = FALSE
    /\ UNCHANGED <<kb, disk, now, page, used>>
    /\ UNCHANGED <<peer, session>>

\* the last field of the card was resolved: the quotes are returned, or no
\* card could be read and scrape_quotes raises
RequestEnds ==
    /\ pc = "done"
    /\ call.op = "resolve"
    /\ call.field = "miles_element"
    /\ \E ok \in BOOLEAN :
          /\ Begin([NoCall EXCEPT !.op = IF ok THEN "request_done" ELSE "request_failed",
                                  !.provider = call.provider, !.field = call.field,
                                  !.arg = <<"parse", IF ok THEN "quotes" ELSE "empty">>])
          /\ result' = IF ok THEN Returned ELSE Raised
    /\ pc' = "idle"
    /\ wfail' = FALSE
    /\ UNCHANGED <<kb, disk, now, page, used>>
    /\ UNCHANGED <<peer, session>>

\* the browsing context is lost while the request runs
SessionLost ==
    /\ used < MaxEvents
    /\ page.alive
    /\ call.op # "none"
    /\ page' = PageClosed
    /\ used' = used + 1
    /\ UNCHANGED <<kb, disk, now, pc, call, idx, loc, stageA, cand, result, log, svclog,
                   kb0, disk0, wfail>>
    /\ UNCHANGED <<peer, session>>

RequestNext ==
    \/ OpenSite
    \/ FillPickup
    \/ FillNext
    \/ Submit
    \/ FindCards
    \/ ParseNext
    \/ RepairField
    \/ RequestFails
    \/ RequestEnds
    \/ SessionLost
    \/ ResolveApply
    \/ ResolveMiss
    \/ ResolveHit
    \/ ResolveExhausted
    \/ RepairProbe
    \/ RepairGenerate
    \/ RepairNoCandidate
    \/ RepairApply
    \/ RepairMiss
    \/ RepairHit

SpecRequest == RequestInit /\ [][RequestNext]_vars

\* scrape_quotes has raised
RequestFailed == pc = "idle" /\ call.op = "request_failed"

\* C28: in the consumer workflow, whenever resolve returns NotFound for a
\* field (all known strategies failed), the repair pipeline is run for that
\* field before the request is failed: a request that fails on a NotFound
\* fails on the NotFound of the repair pipeline.
C28_RepairBeforeFailure ==
    (RequestFailed /\ call.arg[2] = "notfound") => call.arg[1] = "repair"

\* a repair begins in this step
RepairBegins == call'.op = "repair" /\ pc = "done" /\ pc' \in {"p_probe", "p_apply"}

\* C29: the repair pipeline is invoked for a field only directly after
\* resolve returned NotFound for that same field in the same request, never
\* for a field whose resolve returned a handle.
C29_RepairOnlyAfterNotFound ==
    [][RepairBegins =>
        /\ call.op = "resolve"
        /\ result = NotFound
        /\ call'.provider = call.provider
        /\ call'.field = call.field]_vars

\* the cards were repaired after the form was filled with resolved handles
C29_Witness ==
    /\ pc = "done"
    /\ call.op = "repair"
    /\ call.field = "result_cards"
    /\ result.kind = "found"
    /\ Len(GetStrategies(kb, "penske", "pickup_input")) = 9

(***************************************************************************)
(* Two writers: two SelectorKB objects on one kb_file, each with its own   *)
(* self.kb.  kb is the memory of the store that is called, peer that of    *)
(* the other one.                                                          *)
(***************************************************************************)
WriterKeys == { <<"penske", "pickup_input">>, <<"uhaul", "pickup_input">> }

\* both stores were constructed on the same file
WritersInit ==
    /\ disk \in {DiskAbsent, DiskDoc(SavedKb)}
    /\ now = 1
    /\ kb = LoadKb(disk, 1)
    /\ peer = LoadKb(disk, 1)
    /\ session = NoSession
    /\ page = PageOriginal
    /\ pc = "idle"
    /\ call = NoCall
    /\ idx = 0
    /\ loc = <<>>
    /\ stageA = <<>>
    /\ cand = <<>>
    /\ result = NoResult
    /\ log = <<>>
    /\ svclog = <<>>
    /\ kb0 = kb
    /\ disk0 = disk
    /\ wfail = FALSE
    /\ used = 0 - 1

\* the next call is made on the other store
Switch ==
    /\ Begin([NoCall EXCEPT !.op = "switch"])
    /\ kb' = peer
    /\ peer' = kb
    /\ pc' = "done"
    /\ result' = NoResult
    /\ wfail' = FALSE
    /\ UNCHANGED <<disk, now, page, used, session>>

WritersNext ==
    \/ \E k \in WriterKeys : AddStrategy(k[1], k[2], Css("#zip-from"), 0)
    \/ \E i \in 0..1 : RecordSuccess("penske", "pickup_input", i)
    \/ Switch
    \/ Restart

SpecWriters == WritersInit /\ [][WritersNext]_vars

\* what a load of the file would read now, and before the call
OnDisk == LoadKb(disk, now)

OnDisk0 == LoadKb(disk0, now)

\* the entry of key k holds more in the KB a than in the KB b: a record b does
\* not hold, or a higher count of a record
HoldsMore(a, b, k) ==
    \/ Len(GetStrategies(a, k[1], k[2])) > Len(GetStrategies(b, k[1], k[2]))
    \/ \E j \in 1..Len(GetStrategies(a, k[1], k[2])) :
          /\ j <= Len(GetStrategies(b, k[1], k[2]))
          /\ SuccessCount(GetStrategies(a, k[1], k[2])[j])
                > SuccessCount(GetStrategies(b, k[1], k[2])[j])

\* C30: with two writers on one durable document, each with its own copy in
\* memory, the flush of one writer replaces the document by that writer's
\* memory, so that an update the other writer flushed before is lost: what a
\* later load reads is the last writer's KB and nothing else.
C30_LastWriterWins ==
    MutationReturned =>
        /\ disk.kind = "doc"
        /\ \A k \in WriterKeys :
              /\ HasEntry(OnDisk, k[1], k[2]) <=> HasEntry(kb, k[1], k[2])
              /\ GetStrategies(OnDisk, k[1], k[2]) = GetStrategies(kb, k[1], k[2])
              /\ ~HoldsMore(OnDisk, kb, k)

\* the other writer's update was in the file before this flush, and is not
\* in the file after it
C30_Witness ==
    /\ MutationReturned
    /\ disk0.kind = "doc"
    /\ \E k \in WriterKeys :
          /\ HoldsMore(peer, kb, k)
          /\ HoldsMore(OnDisk0, kb, k)
          /\ GetStrategies(OnDisk0, k[1], k[2]) = GetStrategies(peer, k[1], k[2])
          /\ ~HoldsMore(OnDisk, kb, k)

(***************************************************************************)
(* The seeded strategies realized.                                         *)
(***************************************************************************)
\* the call resolves a key of the seeded default KB, from its seeded list
ResolvesSeeded ==
    /\ call.op = "resolve"
    /\ call.provider \in DOMAIN DefaultProviders
    /\ call.field \in DOMAIN DefaultProviders[call.provider]
    /\ call.local = DefaultProviders[call.provider][call.field]

\* C31: every strategy record of the seeded default KB carries the
\* parameters its kind requires, so that realizing a seeded strategy never
\* fails with a construction error.
C31_SeededStrategiesRealizable ==
    ResolvesSeeded =>
        /\ \A j \in 1..Len(call.local) :
              RequiredParams(call.local[j].strategy) \subseteq DOMAIN call.local[j].params
        /\ \A i \in 1..Len(log) : log[i].out # "error"

(***************************************************************************)
(* The availability probe on its own: check_ollama_available on every      *)
(* answer of GET /api/tags.                                                *)
(***************************************************************************)
\* the names a listing can hold; a listed model without a name counts as ""
ListedNames == {"gpt-oss", "gpt-oss:20b", "my-gpt-oss-ft", "GPT-OSS:20b", "llama3:8b", "gpt", ""}

\* the listings: none, one or two models
Listings ==
    {<<>>} \cup {<<n>> : n \in ListedNames} \cup {<<n, m>> : n \in ListedNames, m \in ListedNames}

ProbeInputs ==
    { [exc |-> e, status |-> st, body |-> b, models |-> ms] :
        e \in BOOLEAN, st \in {200, 404, 500}, b \in {"json", "malformed"}, ms \in Listings }

ProbeInit ==
    /\ disk = DiskAbsent
    /\ now = 1
    /\ kb = LoadKb(disk, 1)
    /\ page = PageOriginal
    /\ pc = "s_call"
    /\ call \in { [NoCall EXCEPT !.op = "probe", !.answer = <<a>>] : a \in ProbeInputs }
    /\ idx = 0
    /\ loc = <<>>
    /\ stageA = <<>>
    /\ cand = <<>>
    /\ result = NoResult
    /\ log = <<>>
    /\ svclog = <<>>
    /\ kb0 = kb
    /\ disk0 = disk
    /\ wfail = FALSE
    /\ used = 0
    /\ peer = NoPeer
    /\ session = NoSession

\* self.ollama_repair.check_ollama_available(): it returns, whatever the answer
ProbeCall ==
    /\ pc = "s_call"
    /\ call.op = "probe"
    /\ svclog' = <<TagsRequest(call.answer[1])>>
    /\ result' = Returned
    /\ pc' = "done"
    /\ UNCHANGED <<kb, disk, now, page, call, idx, loc, stageA, cand, log, kb0, disk0,
                   wfail, used, peer, session>>

SpecProbe == ProbeInit /\ [][ProbeCall]_vars

\* the string part is a substring of the string whole
Substring(part, whole) ==
    \E i \in 1..(Len(whole) + 1) : \E j \in (i - 1)..Len(whole) : SubSeq(whole, i, j) = part

\* the listing call succeeded: no exception, status 200, a body that parses
ListingSucceeded(a) == ~a.exc /\ a.status = 200 /\ a.body = "json"

\* C32: the probe reports the service available if and only if the
\* model-listing call succeeds and the configured model name is a substring
\* of the name of at least one listed model; in every other case, an
\* exception included, it returns and reports unavailable.
C32_AvailableIffModelListed ==
    (pc = "done" /\ call.op = "probe") =>
        /\ result = Returned
        /\ svclog[1].available <=>
              /\ ListingSucceeded(call.answer[1])
              /\ \E k \in 1..Len(call.answer[1].models) :
                    Substring(ModelName, call.answer[1].models[k])

\* available by a model whose name holds the configured name in its middle,
\* listed after a model that does not match
C32_Witness ==
    /\ pc = "done"
    /\ call.op = "probe"
    /\ call.answer[1].models = <<"llama3:8b", "my-gpt-oss-ft">>
    /\ svclog[1].available

(***************************************************************************)
(* Two requests in flight on the process-wide store of app_self_heal.py:   *)
(* the adapter, its finder and its SelectorKB are created once, and every  *)
(* request handler runs on the same event loop.  While one request's       *)
(* resolve is suspended in _validate_locator, the other request's repair   *)
(* pipeline may run up to its add_strategy(provider, field, s, position=0),*)
(* which has no suspension point of its own.                               *)
(***************************************************************************)
SharedKey == <<"penske", "pickup_input">>

\* what the other request's repair validated on its own page
PeerStrategies == {Css("#zip-from")}

SharedInit ==
    /\ disk \in {DiskAbsent, DiskDoc(SavedKb)}
    /\ now = 1
    /\ kb = LoadKb(disk, 1)
    /\ page \in {PageOriginal, PageRenamed, PageRedesigned}
    /\ pc = "idle"
    /\ call = NoCall
    /\ idx = 0
    /\ loc = <<>>
    /\ stageA = <<>>
    /\ cand = <<>>
    /\ result = NoResult
    /\ log = <<>>
    /\ svclog = <<>>
    /\ kb0 = kb
    /\ disk0 = disk
    /\ wfail = FALSE
    /\ used = 0
    /\ peer = NoPeer
    /\ session = NoSession

\* the other request's find_with_ai_repair reaches add_strategy on the entry
\* this request is resolving, while this request waits in _validate_locator
PeerCommits ==
    /\ pc = "r_wait"
    /\ used < MaxEvents
    /\ \E s \in PeerStrategies : \E w \in WriteOutcomes :
          SaveKb(AddStrategyMem(kb, call.provider, call.field, s, 0), w)
    /\ used' = used + 1
    /\ UNCHANGED <<page, pc, call, idx, loc, stageA, cand, result, log, svclog, kb0, disk0,
                   wfail, peer, session>>

SharedNext ==
    \/ ResolveStart(SharedKey[1], SharedKey[2])
    \/ ResolveApply
    \/ ResolveMiss
    \/ ResolveHit
    \/ ResolveExhausted
    \/ PeerCommits

SpecShared == SharedInit /\ [][SharedNext]_vars

\* C33: with two requests in flight on the shared store, the record whose
\* success_count a winning resolve increments, the one at the returned index,
\* is the record of the strategy that validated, also when the other request's
\* repair commits a strategy at position 0 of the entry during the validation.
C33_WinCreditsValidatedRecord ==
    (Resolved /\ result.kind = "found") =>
        /\ StrategyOf(EntryOf(kb)[result.index + 1]) = result.handle[1]
        /\ SuccessCount(EntryOf(kb)[result.index + 1]) > 0

\* C34: a resolve attempts each record of the entry at most once, and makes at
\* most as many attempts as the entry had records when the call began, also
\* when another request commits a strategy to the entry during a validation.
C34_EachRecordOnce ==
    Resolving =>
        /\ Len(log) + Len(loc) <= Len(EntryOf(kb0))
        /\ \A i \in 1..Len(log) : \A j \in 1..Len(log) :
              log[i].strategy = log[j].strategy => i = j

(***************************************************************************)
(* The candidates of Stage A.                                              *)
(***************************************************************************)
\* every candidate Stage A discovers for the call, in discovery order
Discovered == Proposals(call.field, call.dom)

\* the candidates behind the first one
Remaining == {Discovered[j] : j \in 2..Len(Discovered)}

\* C35: of the candidates Stage A produces, only the first in discovery order
\* is realized and validated; when it fails validation the pipeline returns
\* NotFound with the KB as it was, and no remaining candidate is attempted.
C35_OnlyFirstCandidateTried ==
    (call.op = "repair" /\ Discovered # <<>>) =>
        /\ svclog = <<>>
        /\ Len(log) <= 1
        /\ \A j \in 1..Len(loc) : loc[j] = StrategyOf(Discovered[1])
        /\ \A j \in 1..Len(log) : log[j].strategy = StrategyOf(Discovered[1])
        /\ (pc = "done" /\ log # <<>> /\ log[1].out # "ok") =>
              /\ result = NotFound
              /\ kb = kb0
              /\ disk = disk0

\* the first candidate timed out, and a remaining candidate that the page
\* holds was never tried
C35_Witness ==
    /\ pc = "done"
    /\ call.op = "repair"
    /\ Len(Discovered) > 1
    /\ Len(log) = 1
    /\ log[1].out = "timeout"
    /\ \E s \in Remaining : StrategyOf(s) \in page.present
    /\ result = NotFound

(***************************************************************************)
(* The candidates Stage B can hand to the pipeline: every JSON object with *)
(* the keys "strategy" and "params" passes propose_strategy_with_ollama,   *)
(* whatever the kind and whatever the params hold.                         *)
(***************************************************************************)
CandidateAnswers ==
    { GenAnswer(SelectorObjectText),
      GenAnswer(UnknownKindText),
      GenAnswer(MissingParamText),
      GenAnswer(RoleNoRoleText),
      GenAnswer(EmptyParamsText),
      GenAnswer("Use ~~~json\n" \o MissingParamText \o "\n~~~ for it.") }

CandidateInit ==
    /\ disk \in {DiskAbsent, DiskDoc(SavedKb)}
    /\ now = 1
    /\ kb = LoadKb(disk, 1)
    /\ page \in {PageOriginal, PageRedesigned}
    /\ pc = "idle"
    /\ call = NoCall
    /\ idx = 0
    /\ loc = <<>>
    /\ stageA = <<>>
    /\ cand = <<>>
    /\ result = NoResult
    /\ log = <<>>
    /\ svclog = <<>>
    /\ kb0 = kb
    /\ disk0 = disk
    /\ wfail = FALSE
    /\ used = 0
    /\ peer = NoPeer
    /\ session = NoSession

\* propose_strategy_with_ollama(field, dom_snippet, failed_strategies, provider)
\* on an answer that holds a JSON object
GenerateCandidate ==
    /\ pc = "p_generate"
    /\ \E a \in CandidateAnswers :
          /\ svclog' = Append(svclog, GenerateRequest(call, a))
          /\ cand' = ProposeStrategyWithOllama(a)
    /\ pc' = "p_apply"
    /\ UNCHANGED <<kb, disk, now, page, call, idx, loc, stageA, result, log,
                   kb0, disk0, wfail, used, peer, session>>

CandidateNext ==
    \/ RepairStart("penske", "pickup_input", FailedInput)
    \/ EnhancedStart("penske", "pickup_input", FailedInput)
    \/ RepairProbe
    \/ GenerateCandidate
    \/ RepairNoCandidate
    \/ RepairApply
    \/ RepairMiss
    \/ RepairHit

SpecCandidate == CandidateInit /\ [][CandidateNext]_vars

\* the kind is none of the seven, or the params lack a parameter the kind needs
Unrealizable(c) ==
    \/ c.strategy \notin {"label", "placeholder", "role", "css", "xpath", "testid", "text"}
    \/ (c.strategy \in {"label", "placeholder", "text"} /\ "text" \notin DOMAIN c.params)
    \/ (c.strategy = "role" /\ ~({"role", "name"} \subseteq DOMAIN c.params))
    \/ (c.strategy = "css" /\ "selector" \notin DOMAIN c.params)
    \/ (c.strategy = "xpath" /\ "xpath" \notin DOMAIN c.params)
    \/ (c.strategy = "testid" /\ "testid" \notin DOMAIN c.params)

\* C36: a proposed candidate whose kind is none of the seven kinds, or whose
\* params lack the parameter its kind needs, is never validated and never
\* committed: the pipeline returns NotFound, it does not raise, and the KB
\* and the file are as they were when the call began.
C36_UnrealizableNeverCommitted ==
    (Repairing /\ cand # <<>> /\ Unrealizable(cand[1])) =>
        /\ loc = <<>>
        /\ kb = kb0
        /\ disk = disk0
        /\ result.kind # "raised"
        /\ pc = "done" => result = NotFound

\* a candidate of a known kind without its parameter ended in NotFound
C36_Witness ==
    /\ pc = "done"
    /\ Repairing
    /\ cand # <<>>
    /\ cand[1].strategy \in SupportedKinds
    /\ Unrealizable(cand[1])
    /\ Len(log) = 1
    /\ log[1].out = "error"
    /\ result = NotFound
    /\ kb = kb0

(***************************************************************************)
(* The failed list the consumer hands to the repair pipeline.              *)
(***************************************************************************)
\* the strategies the resolve before the repair attempted and failed: every
\* strategy of the entry, which an exhausted resolve leaves as it was
JustFailed == StrategiesOf(EntryOf(kb0))

\* C37: when the consumer invokes the repair pipeline after the resolver
\* exhausted a field, the failed list it passes holds the strategies that just
\* failed for the field, and the request to Stage B carries up to two of them.
C37_FailedListPassed ==
    call.op = "repair" =>
        /\ call.failed = JustFailed
        /\ \A j \in 1..Len(svclog) :
              svclog[j].req = "generate" => svclog[j].failed = Prefix(JustFailed, PromptFailed)

(***************************************************************************)
(* The browser session of scrape_quotes, of PenskeAdapter and of           *)
(* SimplePenskeScraper: the browser is launched, a context and a page are  *)
(* created, the body runs inside try, and the finally clause closes the    *)
(* context and then the browser.                                           *)
(***************************************************************************)
Scrapers == {"scrape", "simple_scrape"}

\* the awaited statements of the body that can raise out of it
ScrapeSteps(op) ==
    IF op = "scrape"
    THEN <<"goto", "fill", "submit", "wait", "parse">>
    ELSE <<"goto", "wait", "inputs", "buttons", "pause">>

\* how a statement of the body ends: it completes, it times out (PWTimeout),
\* another error is raised, or a field is not found (RuntimeError of the
\* adapter's _fill_form_resilient, _submit_form_resilient, _parse_results_resilient)
StepOutcomes(op, step) ==
    {"ok", "timeout", "error"}
    \cup (IF op = "scrape" /\ step \in {"fill", "submit", "parse"} THEN {"notfound"} ELSE {})

\* await x.close(): it completes or it raises
CloseOutcomes == {"ok", "error"}

SessionInit ==
    /\ disk = DiskAbsent
    /\ now = 1
    /\ kb = LoadKb(disk, 1)
    /\ page = SiteForm
    /\ pc = "idle"
    /\ call = NoCall
    /\ idx = 0
    /\ loc = <<>>
    /\ stageA = <<>>
    /\ cand = <<>>
    /\ result = NoResult
    /\ log = <<>>
    /\ svclog = <<>>
    /\ kb0 = kb
    /\ disk0 = disk
    /\ wfail = FALSE
    /\ used = 0
    /\ peer = NoPeer
    /\ session = NoSession

\* browser = await p.chromium.launch(...); ctx = await browser.new_context();
\* page = await ctx.new_page()
ScrapeStart(op) ==
    /\ Begin([NoCall EXCEPT !.op = op, !.provider = "penske"])
    /\ session' = [browser |-> "open", ctx |-> "open", pending |-> "none"]
    /\ pc' = "q_body"
    /\ result' = NoResult
    /\ wfail' = FALSE
    /\ UNCHANGED <<kb, disk, now, page, used, peer>>

\* one statement of the body: the next one follows, or the body is left, by
\* return quotes after the last statement or by the exception raised
BodyStep ==
    /\ pc = "q_body"
    /\ LET steps == ScrapeSteps(call.op)
       IN  \E o \in StepOutcomes(call.op, steps[idx + 1]) :
              /\ log' = Append(log, [step |-> steps[idx + 1], out |-> o])
              /\ IF o = "ok" /\ idx + 1 < Len(steps)
                 THEN /\ idx' = idx + 1
                      /\ UNCHANGED <<pc, session>>
                 ELSE /\ session' = [session EXCEPT !.pending = IF o = "ok" THEN "none" ELSE o]
                      /\ pc' = "q_ctx_close"
                      /\ UNCHANGED idx
    /\ UNCHANGED <<kb, disk, now, page, call, loc, stageA, cand, result, svclog, kb0, disk0,
                   wfail, used, peer>>

\* finally: await ctx.close(); an exception of it leaves the finally clause
CloseContext ==
    /\ pc = "q_ctx_close"
    /\ \E o \in CloseOutcomes :
          /\ log' = Append(log, [step |-> "ctx.close", out |-> o])
          /\ IF o = "ok"
             THEN /\ session' = [session EXCEPT !.ctx = "closed"]
                  /\ pc' = "q_browser_close"
             ELSE /\ session' = [session EXCEPT !.ctx = "close_failed", !.pending = "error"]
                  /\ pc' = "q_exit"
    /\ UNCHANGED <<kb, disk, now, page, call, idx, loc, stageA, cand, result, svclog, kb0,
                   disk0, wfail, used, peer>>

\* await browser.close()
CloseBrowser ==
    /\ pc = "q_browser_close"
    /\ \E o \in CloseOutcomes :
          /\ log' = Append(log, [step |-> "browser.close", out |-> o])
          /\ IF o = "ok"
             THEN session' = [session EXCEPT !.browser = "closed"]
             ELSE session' = [session EXCEPT !.browser = "close_failed", !.pending = "error"]
    /\ pc' = "q_exit"
    /\ UNCHANGED <<kb, disk, now, page, call, idx, loc, stageA, cand, result, svclog, kb0,
                   disk0, wfail, used, peer>>

\* the exit of scrape_quotes: the adapter returns the quotes or raises
\* RuntimeError for every exception; the simple scraper returns the quotes, or
\* demo quotes for every exception
ScrapeExit ==
    /\ pc = "q_exit"
    /\ result' = IF call.op = "scrape" /\ session.pending # "none" THEN Raised ELSE Returned
    /\ pc' = "done"
    /\ UNCHANGED <<kb, disk, now, page, call, idx, loc, stageA, cand, log, svclog, kb0, disk0,
                   wfail, used, peer, session>>

SessionNext ==
    \/ \E op \in Scrapers : ScrapeStart(op)
    \/ BodyStep
    \/ CloseContext
    \/ CloseBrowser
    \/ ScrapeExit

SpecSession == SessionInit /\ [][SessionNext]_vars

\* scrape_quotes has returned or raised
Scraped == pc = "done" /\ call.op \in Scrapers

====
